---------------------------- MODULE Spec2Model ----------------------------
(***************************************************************************)
(* TermPhoenix HTML content extraction (src/src/termphoenix/parser).       *)
(*                                                                         *)
(* A Python str is modelled as a sequence of one-character strings, so     *)
(* that strip(), split() and the regular expressions of html_parser.py act *)
(* on characters.  A parse tree is an arena of nodes in document order;    *)
(* node 0 is the BeautifulSoup object itself (name "[document]").          *)
(***************************************************************************)
EXTENDS Integers, Sequences, FiniteSets, TLC

(***************************************************************************)
(* Bounds of the model.                                                    *)
(***************************************************************************)
MaxLen == 4
MaxNodes == 3

(***************************************************************************)
(* Characters.  Python's \w (str pattern) is a letter, a digit or "_";     *)
(* str.split() and str.strip() act on whitespace.                          *)
(***************************************************************************)
UpperChars == {"A", "N"}
LowerChars == {"b"}
DigitChars == {"1"}
SpaceChars == {" "}
TerminatorChars == {".", "!", "?"}
Alphabet == {"A", "b", "1", "_", "-", ".", "!", " "}
TextAlphabet == {"A", "b", "-", ".", " "}

IsSpace(c) == c \in SpaceChars
IsWordChar(c) == c \in UpperChars \cup LowerChars \cup DigitChars \cup {"_"}
IsUpper(c) == c \in UpperChars

SeqsUpTo(S, n) == UNION {[1..k -> S] : k \in 0..n}

Strings == SeqsUpTo(Alphabet, MaxLen)

(***************************************************************************)
(* str.strip(): drop leading and trailing whitespace.                      *)
(***************************************************************************)
RECURSIVE LStrip(_)
LStrip(s) == IF s # <<>> /\ IsSpace(Head(s)) THEN LStrip(Tail(s)) ELSE s

RECURSIVE RStrip(_)
RStrip(s) ==
  IF s # <<>> /\ IsSpace(s[Len(s)]) THEN RStrip(SubSeq(s, 1, Len(s) - 1)) ELSE s

Strip(s) == RStrip(LStrip(s))

(***************************************************************************)
(* str.split(): the maximal runs of non-whitespace, in order.  cur is the  *)
(* run being read, acc the runs already closed.                            *)
(***************************************************************************)
RECURSIVE SplitWs(_, _, _)
SplitWs(s, cur, acc) ==
  IF s = <<>> THEN (IF cur = <<>> THEN acc ELSE Append(acc, cur))
  ELSE IF IsSpace(Head(s))
       THEN SplitWs(Tail(s), <<>>, IF cur = <<>> THEN acc ELSE Append(acc, cur))
       ELSE SplitWs(Tail(s), Append(cur, Head(s)), acc)

Split(s) == SplitWs(s, <<>>, <<>>)

(***************************************************************************)
(* re.sub(r"^[^\w]+|[^\w]+$", "", word): the first alternative removes the *)
(* run of non-word characters at position 0, the second the run of         *)
(* non-word characters that reaches the end of the string.                 *)
(***************************************************************************)
RECURSIVE DropLeading(_)
DropLeading(w) ==
  IF w # <<>> /\ ~IsWordChar(Head(w)) THEN DropLeading(Tail(w)) ELSE w

RECURSIVE DropTrailing(_)
DropTrailing(w) ==
  IF w # <<>> /\ ~IsWordChar(w[Len(w)])
  THEN DropTrailing(SubSeq(w, 1, Len(w) - 1))
  ELSE w

StripLeadingOnly(w) == DropLeading(w)
StripEdges(w) == DropTrailing(DropLeading(w))

RemoveAllNonWord(word) == SelectSeq(word, IsWordChar)
_clean_word(word) == StripEdges(word)

RECURSIVE CleanEach(_)
CleanEach(raw) ==
  IF raw = <<>> THEN <<>>
  ELSE LET cleaned == StripEdges(Head(raw))
       IN  (IF cleaned # <<>> THEN <<cleaned>> ELSE <<>>) \o CleanEach(Tail(raw))

_split_text_into_words(text) == CleanEach(Split(text))

(***************************************************************************)
(* re.split(r"[.!?]+", text): the pieces between maximal runs of           *)
(* terminators, empty pieces at the ends included; then the comprehension  *)
(* [s.strip() for s in sentences if s.strip()].                            *)
(***************************************************************************)
RECURSIVE ReSplit(_, _, _, _)
ReSplit(s, cur, acc, inRun) ==
  IF s = <<>> THEN Append(acc, cur)
  ELSE IF Head(s) \in TerminatorChars
       THEN (IF inRun THEN ReSplit(Tail(s), cur, acc, TRUE)
             ELSE ReSplit(Tail(s), <<>>, Append(acc, cur), TRUE))
       ELSE ReSplit(Tail(s), Append(cur, Head(s)), acc, FALSE)

RECURSIVE StripNonEmpty(_)
StripNonEmpty(pieces) ==
  IF pieces = <<>> THEN <<>>
  ELSE (IF Strip(Head(pieces)) # <<>> THEN <<Strip(Head(pieces))>> ELSE <<>>)
       \o StripNonEmpty(Tail(pieces))

_split_into_sentences(text) == StripNonEmpty(ReSplit(text, <<>>, <<>>, FALSE))


(***************************************************************************)
(* models.py: EmphasisType, and the table HTMLParser.EMPHASIS_TAGS.        *)
(***************************************************************************)
EmphasisType ==
  {"bold", "italic", "underline", "header", "link_text", "strong",
   "emphasis", "code", "blockquote"}

EMPHASIS_TAGS ==
  [b |-> "bold", strong |-> "strong", i |-> "italic", em |-> "emphasis",
   u |-> "underline", code |-> "code", h1 |-> "header", h2 |-> "header",
   h3 |-> "header", h4 |-> "header", h5 |-> "header", h6 |-> "header",
   a |-> "link_text", blockquote |-> "blockquote"]

RemoveTagsWithoutNoscript == {"script", "style"}
REMOVE_TAGS == {"script", "style", "noscript"}

(***************************************************************************)
(* Optional[str]: None, or a string.                                       *)
(***************************************************************************)
None == [isNone |-> TRUE, v |-> <<>>]
Some(s) == [isNone |-> FALSE, v |-> s]

(***************************************************************************)
(* Attribute values as the tree backend hands them out: absent, a str, or  *)
(* a list of str (a multi-valued attribute).                               *)
(***************************************************************************)
NoAttr == [t |-> "none", s |-> <<>>, l |-> <<>>]
StrAttr(s) == [t |-> "str", s |-> s, l |-> <<>>]
ListAttr(l) == [t |-> "list", s |-> <<>>, l |-> l]

(***************************************************************************)
(* URL strings by their components (urllib.parse.urlparse): scheme,        *)
(* netloc = userinfo@host:port, path, fragment.  valid = FALSE is a string *)
(* urlparse rejects with ValueError (an unbalanced "[" in the netloc).     *)
(***************************************************************************)
NoNetloc == [userinfo |-> "", host |-> "", port |-> ""]
Netloc(u, h, p) == [userinfo |-> u, host |-> h, port |-> p]
Url(sch, nl, rooted, path, frag) ==
  [valid |-> TRUE, scheme |-> sch, netloc |-> nl, rooted |-> rooted,
   path |-> path, fragment |-> frag]
EmptyUrl == Url("", NoNetloc, FALSE, <<>>, "")
InvalidUrl ==
  [valid |-> FALSE, scheme |-> "http", netloc |-> Netloc("", "[bad", ""),
   rooted |-> FALSE, path |-> <<>>, fragment |-> ""]
NoHref == [t |-> "none", u |-> EmptyUrl, l |-> <<>>]
StrHref(u) == [t |-> "str", u |-> u, l |-> <<>>]
ListHref(l) == [t |-> "list", u |-> EmptyUrl, l |-> l]

uses_relative == {"", "ftp", "http", "https", "file", "ws", "wss"}

(***************************************************************************)
(* Parse-tree nodes.  kind is the bs4 class of the node: Tag,              *)
(* NavigableString ("text"), Comment or Doctype.  parent is the index of   *)
(* the parent node, 0 for a child of the BeautifulSoup object.             *)
(***************************************************************************)
Node(kind, name, parent, text, href, mname, property, content, alt) ==
  [kind |-> kind, name |-> name, parent |-> parent, text |-> text,
   href |-> href, mname |-> mname, property |-> property,
   content |-> content, alt |-> alt]
TagNode(name, parent) ==
  Node("tag", name, parent, <<>>, NoHref, "", "", NoAttr, NoAttr)
StringNode(kind, parent, text) ==
  Node(kind, "", parent, text, NoHref, "", "", NoAttr, NoAttr)
Anchor(parent, href) ==
  Node("tag", "a", parent, <<>>, href, "", "", NoAttr, NoAttr)
Meta(parent, mname, property, content) ==
  Node("tag", "meta", parent, <<>>, NoHref, mname, property, content, NoAttr)
Img(parent, alt) ==
  Node("tag", "img", parent, <<>>, NoHref, "", "", NoAttr, alt)

DOCUMENT == "[document]"

(***************************************************************************)
(* Tree navigation.  soup = [nodes, gone]: the arena, and the indices that *)
(* decompose()/extract() have taken out of the tree.                       *)
(***************************************************************************)
NoParent == -1
ParentOf(nodes, i) == IF i = 0 THEN NoParent ELSE nodes[i].parent
NameOf(nodes, i) == IF i = 0 THEN DOCUMENT ELSE nodes[i].name

RECURSIVE IsUnder(_, _, _)
IsUnder(nodes, i, e) ==
  IF i = 0 THEN FALSE
  ELSE nodes[i].parent = e \/ IsUnder(nodes, nodes[i].parent, e)

Indices(nodes) == [i \in 1..Len(nodes) |-> i]
Alive(soup) == SelectSeq(Indices(soup.nodes), LAMBDA i : i \notin soup.gone)

FindAllTags(soup, tag_name) ==
  SelectSeq(Alive(soup),
            LAMBDA i : soup.nodes[i].kind = "tag" /\ soup.nodes[i].name = tag_name)

FindAllStrings(soup) ==
  SelectSeq(Alive(soup), LAMBDA i : soup.nodes[i].kind # "tag")

Decompose(soup, e) ==
  [soup EXCEPT !.gone =
     @ \cup {e} \cup {i \in 1..Len(soup.nodes) : IsUnder(soup.nodes, i, e)}]

RECURSIVE DecomposeAll(_, _)
DecomposeAll(soup, elements) ==
  IF elements = <<>> THEN soup
  ELSE DecomposeAll(Decompose(soup, Head(elements)), Tail(elements))

RemoveFirstTagOnly(soup, order) ==
  IF order = <<>> THEN soup
  ELSE DecomposeAll(soup, FindAllTags(soup, Head(order)))

RECURSIVE RemoveEach(_, _)
RemoveEach(soup, order) ==
  IF order = <<>> THEN soup
  ELSE RemoveEach(DecomposeAll(soup, FindAllTags(soup, Head(order))), Tail(order))

RemoveTags(soup, order) == RemoveEach(soup, order)

RemoveComments(soup) ==
  [soup EXCEPT !.gone =
     @ \cup {i \in 1..Len(soup.nodes) : i \notin @ /\ soup.nodes[i].kind = "comment"}]

(***************************************************************************)
(* _remove_non_content; order is the order in which the set REMOVE_TAGS is *)
(* iterated, which Python does not fix.                                    *)
(***************************************************************************)
_remove_non_content(soup, order) == RemoveComments(RemoveTags(soup, order))

Orders(S) ==
  {o \in [1..Cardinality(S) -> S] : \A x \in S : \E k \in DOMAIN o : o[k] = x}

(***************************************************************************)
(* Tag.get_text(): the strings of exact class NavigableString below e (a   *)
(* Comment or a Doctype is left out), concatenated.                        *)
(***************************************************************************)
RECURSIVE Concat(_)
Concat(ss) == IF ss = <<>> THEN <<>> ELSE Head(ss) \o Concat(Tail(ss))

RECURSIVE TextsOf(_, _)
TextsOf(nodes, idx) ==
  IF idx = <<>> THEN <<>> ELSE <<nodes[Head(idx)].text>> \o TextsOf(nodes, Tail(idx))

VisibleStringsUnder(soup, e) ==
  SelectSeq(Alive(soup),
            LAMBDA i : soup.nodes[i].kind = "text"
                       /\ (e = 0 \/ IsUnder(soup.nodes, i, e)))

GetText(soup, e) == Concat(TextsOf(soup.nodes, VisibleStringsUnder(soup, e)))

(***************************************************************************)
(* str.join(" ", parts)                                                    *)
(***************************************************************************)
RECURSIVE JoinSpace(_)
JoinSpace(parts) ==
  IF parts = <<>> THEN <<>>
  ELSE IF Len(parts) = 1 THEN parts[1]
  ELSE parts[1] \o <<" ">> \o JoinSpace(Tail(parts))

RECURSIVE StripEach(_)
StripEach(parts) ==
  IF parts = <<>> THEN <<>> ELSE <<Strip(Head(parts))>> \o StripEach(Tail(parts))

_extract_title(soup) ==
  LET found == FindAllTags(soup, "title")
  IN  IF found # <<>> THEN Strip(GetText(soup, found[1])) ELSE <<>>

(***************************************************************************)
(* _extract_meta_description: soup.find("meta", attrs={"name":             *)
(* "description"}) is the first such element; `if content:` is false for   *)
(* None, for "" and for an empty list.                                     *)
(***************************************************************************)
Truthy(attr) ==
  \/ attr.t = "str" /\ attr.s # <<>>
  \/ attr.t = "list" /\ attr.l # <<>>

MetaContentTruthyOrEmpty(attr) == attr.t # "none"
MetaContentUsable(attr) == Truthy(attr)

_extract_meta_description(soup) ==
  LET found == SelectSeq(FindAllTags(soup, "meta"),
                         LAMBDA i : soup.nodes[i].mname = "description")
  IN  IF found = <<>> THEN None
      ELSE LET content == soup.nodes[found[1]].content
           IN  IF ~MetaContentUsable(content) THEN None
               ELSE IF content.t = "str" THEN Some(Strip(content.s))
               ELSE Some(Strip(JoinSpace(content.l)))

(***************************************************************************)
(* _extract_image_alt_texts                                                *)
(***************************************************************************)
AltOf(attr) ==
  IF attr.t = "str" THEN Strip(attr.s) ELSE Strip(JoinSpace(StripEach(attr.l)))

RECURSIVE AltLoop(_, _)
AltLoop(nodes, imgs) ==
  IF imgs = <<>> THEN <<>>
  ELSE LET alt_value == nodes[Head(imgs)].alt
       IN  (IF alt_value.t # "none" /\ AltOf(alt_value) # <<>>
            THEN <<AltOf(alt_value)>> ELSE <<>>)
           \o AltLoop(nodes, Tail(imgs))

_extract_image_alt_texts(soup) == AltLoop(soup.nodes, FindAllTags(soup, "img"))

(***************************************************************************)
(* The upward walks.  `while current and current.name` ends at None (the   *)
(* parent of the BeautifulSoup object) or at a node without a name.        *)
(***************************************************************************)
WalkEnds(nodes, current) == current = NoParent \/ NameOf(nodes, current) = ""

NodeCategory(name) ==
  IF name \in DOMAIN EMPHASIS_TAGS THEN {EMPHASIS_TAGS[name]}
  ELSE IF name = "title" THEN {"header"}
  ELSE {}

ElementCategory(name) ==
  IF name \in DOMAIN EMPHASIS_TAGS THEN {EMPHASIS_TAGS[name]} ELSE {}

RECURSIVE NodeEmphasisFrom(_, _)
NodeEmphasisFrom(nodes, current) ==
  IF WalkEnds(nodes, current) THEN {}
  ELSE NodeCategory(NameOf(nodes, current))
       \cup NodeEmphasisFrom(nodes, ParentOf(nodes, current))

NodeEmphasisParentOnly(nodes, node) == NodeCategory(NameOf(nodes, ParentOf(nodes, node)))
_get_node_emphasis(nodes, node) == NodeEmphasisFrom(nodes, ParentOf(nodes, node))

RECURSIVE ElementEmphasisFrom(_, _)
ElementEmphasisFrom(nodes, current) ==
  IF WalkEnds(nodes, current) THEN {}
  ELSE ElementCategory(NameOf(nodes, current))
       \cup ElementEmphasisFrom(nodes, ParentOf(nodes, current))

ElementEmphasisOfAncestors(nodes, element) ==
  ElementEmphasisFrom(nodes, ParentOf(nodes, element))
_get_element_emphasis(nodes, element) == ElementEmphasisFrom(nodes, element)

RECURSIVE ParentTagsFrom(_, _)
ParentTagsFrom(nodes, current) ==
  IF WalkEnds(nodes, current) THEN <<>>
  ELSE <<NameOf(nodes, current)>> \o ParentTagsFrom(nodes, ParentOf(nodes, current))

_get_parent_tags(nodes, node) == ParentTagsFrom(nodes, ParentOf(nodes, node))

(***************************************************************************)
(* urllib.parse.urljoin(base, url) on the components.                      *)
(***************************************************************************)
Front(path) == IF path = <<>> THEN <<>> ELSE SubSeq(path, 1, Len(path) - 1)

urljoin(base, url) ==
  IF base = EmptyUrl THEN url
  ELSE IF url = EmptyUrl THEN base
  ELSE LET scheme == IF url.scheme = "" THEN base.scheme ELSE url.scheme
       IN  IF scheme # base.scheme \/ scheme \notin uses_relative THEN url
           ELSE IF url.netloc # NoNetloc THEN [url EXCEPT !.scheme = scheme]
           ELSE IF url.path = <<>> /\ ~url.rooted
                THEN [base EXCEPT !.fragment = url.fragment]
           ELSE IF url.rooted
                THEN Url(scheme, base.netloc, TRUE, url.path, url.fragment)
           ELSE Url(scheme, base.netloc,
                    base.rooted \/ base.netloc # NoNetloc,
                    Front(base.path) \o url.path, url.fragment)

(***************************************************************************)
(* _extract_links.  The href is coerced to one str: a str as it is, a      *)
(* non-empty list by its first element, an empty list by str([]) = "[]".   *)
(***************************************************************************)
CoerceHref(href_value) ==
  IF href_value.t = "str" THEN href_value.u
  ELSE IF href_value.l # <<>> THEN href_value.l[1]
  ELSE Url("", NoNetloc, FALSE, <<"[]">>, "")

AnchorsWithHref(soup) ==
  SelectSeq(FindAllTags(soup, "a"), LAMBDA i : soup.nodes[i].href.t # "none")

(* line 233: if not href: continue *)
HrefSkippedOrNotHttp(href) == href = EmptyUrl \/ href.scheme \notin {"", "http", "https"}
HrefSkipped(href) == href = EmptyUrl

IsInternalByHost(target_domain, base_domain) == target_domain.host = base_domain.host
IsInternal(target_domain, base_domain) == target_domain = base_domain

LinkOf(soup, a_tag, base_url) ==
  LET href == CoerceHref(soup.nodes[a_tag].href)
      absolute_url == urljoin(base_url, href)
  IN  [url |-> absolute_url,
       text |-> Strip(GetText(soup, a_tag)),
       is_internal |-> IsInternal(absolute_url.netloc, base_url.netloc),
       emphasis |-> _get_element_emphasis(soup.nodes, a_tag)]

RECURSIVE LinkLoop(_, _, _)
LinkLoop(soup, anchors, base_url) ==
  IF anchors = <<>> THEN <<>>
  ELSE (IF HrefSkipped(CoerceHref(soup.nodes[Head(anchors)].href)) THEN <<>>
        ELSE <<LinkOf(soup, Head(anchors), base_url)>>)
       \o LinkLoop(soup, Tail(anchors), base_url)

_extract_links(soup, base_url) == LinkLoop(soup, AnchorsWithHref(soup), base_url)

(* Each LinkInfo holds the set its call of _get_element_emphasis made. *)
LinkHeap(heap, links) == heap \o [k \in DOMAIN links |-> links[k].emphasis]
LinkRefs(heap, links) == [k \in DOMAIN links |-> Len(heap) + k]

(***************************************************************************)
(* urlparse and urljoin raise ValueError on a string they reject: the base *)
(* URL at line 213, an href at line 239.                                   *)
(***************************************************************************)
LinksRaise(soup, base_url) ==
  \/ ~base_url.valid
  \/ \E k \in DOMAIN AnchorsWithHref(soup) :
        LET href == CoerceHref(soup.nodes[AnchorsWithHref(soup)[k]].href)
        IN  ~HrefSkipped(href) /\ ~href.valid

(***************************************************************************)
(* _extract_text_tokens.  st = [tokens, origin, absolute_position,         *)
(* text_group_id, heap, emphasis_refs, parent_tags_refs]; origin is not    *)
(* program state: it records, for each token, the node it was cut from.    *)
(*                                                                         *)
(* Sets and lists are objects: heap is the sequence of the objects         *)
(* allocated so far, an object's identity its index.  set() and [] and     *)
(* .copy() allocate; emphasis_refs[k] and parent_tags_refs[k] are the      *)
(* objects token k holds.                                                  *)
(***************************************************************************)
Alloc(heap, value) == [heap |-> Append(heap, value), ref |-> Len(heap) + 1]

ShareObject(heap, ref) == [heap |-> heap, ref |-> ref]
CopyObject(heap, ref) == Alloc(heap, heap[ref])

(* line 316 *)
IsInFirstSentence(word_index, sentence_index) == sentence_index = 0
IsFirstWordOfAnySentence(word_index, sentence_index) == word_index = 0
IsSentenceStart(word_index, sentence_index) == word_index = 0 /\ sentence_index = 0

(* lines 323-324 *)
WordsSoFar(word_index, length) == length
WordIndex(word_index, length) == word_index

TokenPositionLocal(absolute_position, word_index) == word_index
TokenPosition(absolute_position, word_index) == absolute_position

RECURSIVE WordLoop(_, _, _, _, _)
WordLoop(words, word_index, sentence_index, ctx, st) ==
  IF word_index >= Len(words) THEN st
  ELSE LET word == words[word_index + 1]
           cleaned_word == _clean_word(word)
           token ==
             [text |-> word,
              cleaned_text |-> cleaned_word,
              emphasis |-> ctx.emphasis,
              position |-> TokenPosition(st.absolute_position, word_index),
              paragraph_position |-> WordIndex(word_index, Len(st.tokens)),
              sentence_position |-> WordIndex(word_index, Len(st.tokens)),
              is_capitalized |->
                IF cleaned_word # <<>> THEN IsUpper(cleaned_word[1]) ELSE FALSE,
              is_sentence_start |-> IsSentenceStart(word_index, sentence_index),
              parent_tags |-> ctx.parent_tags,
              text_group_id |-> st.text_group_id]
           emphasis == CopyObject(st.heap, ctx.emphasis_ref)
           parent_tags == CopyObject(emphasis.heap, ctx.parent_tags_ref)
       IN  IF word = <<>>
           THEN WordLoop(words, word_index + 1, sentence_index, ctx, st)
           ELSE WordLoop(words, word_index + 1, sentence_index, ctx,
                         [st EXCEPT !.tokens = Append(@, token),
                                    !.origin = Append(@, ctx.node),
                                    !.heap = parent_tags.heap,
                                    !.emphasis_refs = Append(@, emphasis.ref),
                                    !.parent_tags_refs = Append(@, parent_tags.ref),
                                    !.absolute_position = @ + 1])

RECURSIVE SentenceLoop(_, _, _, _)
SentenceLoop(sentences, sentence_index, ctx, st) ==
  IF sentence_index >= Len(sentences) THEN st
  ELSE SentenceLoop(sentences, sentence_index + 1, ctx,
                    WordLoop(_split_text_into_words(sentences[sentence_index + 1]),
                             0, sentence_index, ctx, st))

(* line 334: text_group_id += 1, after the node's sentences *)
AdvanceWhenTokens(text_group_id, yielded) ==
  IF yielded > 0 THEN text_group_id + 1 ELSE text_group_id
AdvanceGroup(text_group_id, yielded) == text_group_id + 1

RECURSIVE NodeLoop(_, _, _)
NodeLoop(nodes, text_nodes, st) ==
  IF text_nodes = <<>> THEN st
  ELSE LET node == Head(text_nodes)
           text == Strip(nodes[node].text)
           emphasis == Alloc(st.heap, _get_node_emphasis(nodes, node))
           parent_tags == Alloc(emphasis.heap, _get_parent_tags(nodes, node))
           ctx == [emphasis |-> _get_node_emphasis(nodes, node),
                   parent_tags |-> _get_parent_tags(nodes, node),
                   emphasis_ref |-> emphasis.ref,
                   parent_tags_ref |-> parent_tags.ref,
                   node |-> node]
           after == SentenceLoop(_split_into_sentences(text), 0, ctx,
                                 [st EXCEPT !.heap = parent_tags.heap])
       IN  IF text = <<>> THEN NodeLoop(nodes, Tail(text_nodes), st)
           ELSE NodeLoop(nodes, Tail(text_nodes),
                         [after EXCEPT !.text_group_id =
                            AdvanceGroup(@, Len(after.tokens) - Len(st.tokens))])

TokenWalkOn(soup, heap) ==
  NodeLoop(soup.nodes, FindAllStrings(soup),
           [tokens |-> <<>>, origin |-> <<>>, absolute_position |-> 0,
            text_group_id |-> 0, heap |-> heap,
            emphasis_refs |-> <<>>, parent_tags_refs |-> <<>>])

TokenWalk(soup) == TokenWalkOn(soup, <<>>)

_extract_text_tokens(soup) == TokenWalk(soup).tokens

(***************************************************************************)
(* _extract_plain_text: get_text(separator=" ", strip=True) strips every   *)
(* string and leaves the empty ones out; then runs of whitespace collapse. *)
(***************************************************************************)
RECURSIVE DropEmpty(_)
DropEmpty(parts) ==
  IF parts = <<>> THEN <<>>
  ELSE (IF Head(parts) = <<>> THEN <<>> ELSE <<Head(parts)>>) \o DropEmpty(Tail(parts))

RECURSIVE CollapseWs(_, _)
CollapseWs(s, inRun) ==
  IF s = <<>> THEN <<>>
  ELSE IF IsSpace(Head(s))
       THEN (IF inRun THEN <<>> ELSE <<" ">>) \o CollapseWs(Tail(s), TRUE)
       ELSE <<Head(s)>> \o CollapseWs(Tail(s), FALSE)

PlainTextOf(nodes, strings) ==
  Strip(CollapseWs(JoinSpace(DropEmpty(StripEach(TextsOf(nodes, strings)))), FALSE))

_extract_plain_text(soup) == PlainTextOf(soup.nodes, VisibleStringsUnder(soup, 0))

(***************************************************************************)
(* models.py: ParsedPage.  The dataclass stores its arguments and then     *)
(* __post_init__ overwrites emphasis_stats and word_count.                 *)
(***************************************************************************)
CountWith(tokens, emp_type) ==
  Cardinality({k \in DOMAIN tokens : emp_type \in tokens[k].emphasis})

PostInitKeepSupplied(page) == page
__post_init__(page) ==
  [page EXCEPT !.emphasis_stats = [emp_type \in EmphasisType |-> CountWith(page.tokens, emp_type)],
               !.word_count = Len(page.tokens)]

ParsedPage(url, title, meta_description, plain_text, tokens, links,
           image_alt_texts, emphasis_stats, word_count) ==
  __post_init__([url |-> url, title |-> title,
                 meta_description |-> meta_description,
                 plain_text |-> plain_text, tokens |-> tokens, links |-> links,
                 emphasis_stats |-> emphasis_stats, word_count |-> word_count,
                 image_alt_texts |-> image_alt_texts])

(***************************************************************************)
(* Exceptions.  `except Exception` (line 121) catches every class derived  *)
(* from Exception; bs4.FeatureNotFound derives from ValueError.            *)
(***************************************************************************)
ExceptionClasses ==
  {"ValueError", "FeatureNotFound", "RecursionError", "AttributeError"}
ValueErrorClasses == {"ValueError", "FeatureNotFound"}

CaughtValueErrorOnly(e) == e \in ValueErrorClasses
Caught(e) == e \in ExceptionClasses

(***************************************************************************)
(* Backends.  BeautifulSoup(html, features) raises FeatureNotFound when no *)
(* tree builder has the requested feature.                                 *)
(***************************************************************************)
Backends == {"lxml", "html.parser", "nosuchparser"}
HasTreeBuilder(features) == features \in {"lxml", "html.parser"}

(***************************************************************************)
(* The steps of parse_html, in program order (lines 88 to 119).            *)
(***************************************************************************)
Steps ==
  <<"build", "filter", "title", "meta", "images", "links", "tokens", "plain",
    "return">>
StepNames == {Steps[k] : k \in DOMAIN Steps}
StepIndex(p) == CHOOSE k \in DOMAIN Steps : Steps[k] = p

Calls == {1, 2}
Instances == {1, 2}

UnboundSoup == [nodes |-> <<>>, gone |-> {}]
Unbound ==
  [soup |-> UnboundSoup, title |-> <<>>, meta_description |-> None,
   image_alt_texts |-> <<>>, links |-> <<>>, tokens |-> <<>>,
   plain_text |-> <<>>]
NoResult == <<>>
NoRefs == [links |-> <<>>, emphasis |-> <<>>, parent_tags |-> <<>>]
Untouched == [token |-> 0, field |-> ""]

(***************************************************************************)
(* State of the parser.                                                    *)
(*   parser[i]    HTMLParser.parser of instance i (set by __init__)        *)
(*   inst[c]      the instance call c runs on                              *)
(*   html[c]      the html_content of call c: the tree a lenient backend   *)
(*                builds for it, and the step (if any) at which the        *)
(*                backend raises on it, with the exception class           *)
(*   page_url[c]  the page_url of call c                                   *)
(*   pc[c]        the next step of call c                                  *)
(*   local[c]     the local variables of parse_html in call c              *)
(*   origin[c]    for each token of call c, the node it was cut from       *)
(*   exc[c]       the exception in flight in call c ("" if none)           *)
(*   result[c]    what call c returned                                     *)
(***************************************************************************)
VARIABLES parser, inst, html, page_url, pc, local, origin, exc, result

(***************************************************************************)
(* A call of _split_text_into_words on its own: wtext its argument, wraw   *)
(* the whitespace-delimited raw words, wwords the list returned.           *)
(***************************************************************************)
VARIABLES wtext, wraw, wwords, wpc

(***************************************************************************)
(* A ParsedPage built directly by a client: given holds the constructor's  *)
(* arguments, page the finished value.                                     *)
(***************************************************************************)
VARIABLES given, page

(***************************************************************************)
(* Objects.  heap[c] holds the sets and lists call c allocated, refs[c]    *)
(* the objects the tokens and links of call c hold, touched[c] what the    *)
(* client changed in the page it got from call c.                          *)
(***************************************************************************)
VARIABLES heap, refs, touched

(***************************************************************************)
(* database/manager.py: a DatabaseManager and the files it works on.       *)
(*   files       the database files ever created, each with the state of   *)
(*               its schema, its project metadata and its websites rows    *)
(*   db_path     the file db_path names (NoFile if it does not exist)      *)
(*   connection  DatabaseManager.connection: the file it is open on, or    *)
(*               NoConnection for None                                     *)
(*   history     the calls made on the manager, in order, with what each   *)
(*               returned or raised                                        *)
(***************************************************************************)
VARIABLES files, db_path, connection, history

NoFile == 0
NoConnection == 0

dvars == <<files, db_path, connection, history>>
hvars == <<heap, refs, touched>>
wvars == <<wtext, wraw, wwords, wpc>>
gvars == <<given, page>>

pvars == <<parser, inst, html, page_url, pc, local, origin, exc, result>>
vars == <<pvars, wvars, gvars, hvars, dvars>>

Raises(c, step) == html[c].raises = step

Throw(c, e) ==
  /\ exc' = [exc EXCEPT ![c] = e]
  /\ pc' = [pc EXCEPT ![c] = IF Caught(e) THEN "except" ELSE "escaped"]
  /\ UNCHANGED <<local, origin, result>>

Goto(c, p) ==
  /\ pc' = [pc EXCEPT ![c] = p]
  /\ UNCHANGED <<exc, result>>

MakeSoup(html_content) == [nodes |-> html_content.nodes, gone |-> {}]

(* A tree kept where every call finds it, not in the call's own locals. *)
BuildShared(c) ==
  /\ pc[c] = "build"
  /\ IF ~HasTreeBuilder(parser[inst[c]]) THEN Throw(c, "FeatureNotFound")
     ELSE IF Raises(c, "build") THEN Throw(c, html[c].exc)
     ELSE /\ local' = [k \in Calls |-> [local[k] EXCEPT !.soup = MakeSoup(html[c])]]
          /\ Goto(c, "filter")
          /\ UNCHANGED origin
  /\ UNCHANGED <<parser, inst, html, page_url, wvars, gvars, hvars, dvars>>

(* line 88: soup = BeautifulSoup(html_content, self.parser) *)
Build(c) ==
  /\ pc[c] = "build"
  /\ IF ~HasTreeBuilder(parser[inst[c]]) THEN Throw(c, "FeatureNotFound")
     ELSE IF Raises(c, "build") THEN Throw(c, html[c].exc)
     ELSE /\ local' = [local EXCEPT ![c].soup = MakeSoup(html[c])]
          /\ Goto(c, "filter")
          /\ UNCHANGED origin
  /\ UNCHANGED <<parser, inst, html, page_url, wvars, gvars, hvars, dvars>>

(* line 91: self._remove_non_content(soup) *)
Filter(c) ==
  /\ pc[c] = "filter"
  /\ IF Raises(c, "filter") THEN Throw(c, html[c].exc)
     ELSE \E order \in Orders(REMOVE_TAGS) :
            /\ local' = [local EXCEPT ![c].soup = _remove_non_content(@, order)]
            /\ Goto(c, "title")
            /\ UNCHANGED origin
  /\ UNCHANGED <<parser, inst, html, page_url, wvars, gvars, hvars, dvars>>

(* line 94: title = self._extract_title(soup) *)
Title(c) ==
  /\ pc[c] = "title"
  /\ IF Raises(c, "title") THEN Throw(c, html[c].exc)
     ELSE /\ local' = [local EXCEPT ![c].title = _extract_title(local[c].soup)]
          /\ Goto(c, "meta")
          /\ UNCHANGED origin
  /\ UNCHANGED <<parser, inst, html, page_url, wvars, gvars, hvars, dvars>>

(* line 95: meta_description = self._extract_meta_description(soup) *)
MetaDescription(c) ==
  /\ pc[c] = "meta"
  /\ IF Raises(c, "meta") THEN Throw(c, html[c].exc)
     ELSE /\ local' = [local EXCEPT ![c].meta_description =
                                      _extract_meta_description(local[c].soup)]
          /\ Goto(c, "images")
          /\ UNCHANGED origin
  /\ UNCHANGED <<parser, inst, html, page_url, wvars, gvars, hvars, dvars>>

(* line 98: image_alt_texts = self._extract_image_alt_texts(soup) *)
ImageAltTexts(c) ==
  /\ pc[c] = "images"
  /\ IF Raises(c, "images") THEN Throw(c, html[c].exc)
     ELSE /\ local' = [local EXCEPT ![c].image_alt_texts =
                                      _extract_image_alt_texts(local[c].soup)]
          /\ Goto(c, "links")
          /\ UNCHANGED origin
  /\ UNCHANGED <<parser, inst, html, page_url, wvars, gvars, hvars, dvars>>

(* line 101: links = self._extract_links(soup, page_url) *)
Links(c) ==
  /\ pc[c] = "links"
  /\ IF Raises(c, "links") THEN Throw(c, html[c].exc) /\ UNCHANGED <<heap, refs>>
     ELSE IF LinksRaise(local[c].soup, page_url[c])
          THEN Throw(c, "ValueError") /\ UNCHANGED <<heap, refs>>
     ELSE LET links == _extract_links(local[c].soup, page_url[c])
          IN  /\ local' = [local EXCEPT ![c].links = links]
              /\ heap' = [heap EXCEPT ![c] = LinkHeap(@, links)]
              /\ refs' = [refs EXCEPT ![c].links = LinkRefs(heap[c], links)]
              /\ Goto(c, "tokens")
              /\ UNCHANGED origin
  /\ UNCHANGED <<parser, inst, html, page_url, wvars, gvars, touched, dvars>>

(* line 104: tokens = self._extract_text_tokens(soup) *)
Tokens(c) ==
  /\ pc[c] = "tokens"
  /\ IF Raises(c, "tokens") THEN Throw(c, html[c].exc) /\ UNCHANGED <<heap, refs>>
     ELSE LET walk == TokenWalkOn(local[c].soup, heap[c])
          IN  /\ local' = [local EXCEPT ![c].tokens = _extract_text_tokens(local[c].soup)]
              /\ origin' = [origin EXCEPT ![c] = walk.origin]
              /\ heap' = [heap EXCEPT ![c] = walk.heap]
              /\ refs' = [refs EXCEPT ![c].emphasis = walk.emphasis_refs,
                                      ![c].parent_tags = walk.parent_tags_refs]
              /\ Goto(c, "plain")
  /\ UNCHANGED <<parser, inst, html, page_url, wvars, gvars, touched, dvars>>

(* line 107: plain_text = self._extract_plain_text(soup) *)
PlainText(c) ==
  /\ pc[c] = "plain"
  /\ IF Raises(c, "plain") THEN Throw(c, html[c].exc)
     ELSE /\ local' = [local EXCEPT ![c].plain_text = _extract_plain_text(local[c].soup)]
          /\ Goto(c, "return")
          /\ UNCHANGED origin
  /\ UNCHANGED <<parser, inst, html, page_url, wvars, gvars, hvars, dvars>>

(* lines 109-119: return ParsedPage(..., emphasis_stats={}, word_count=0) *)
Return(c) ==
  /\ pc[c] = "return"
  /\ result' = [result EXCEPT ![c] =
       ParsedPage(page_url[c], local[c].title, local[c].meta_description,
                  local[c].plain_text, local[c].tokens, local[c].links,
                  local[c].image_alt_texts, <<>>, 0)]
  /\ pc' = [pc EXCEPT ![c] = "done"]
  /\ UNCHANGED <<parser, inst, html, page_url, local, origin, exc, wvars, gvars, hvars, dvars>>

(* lines 121-134: the handler returns the empty page *)
DegradedMeta == Some(<<>>)

DegradedPage(url) ==
  ParsedPage(url, <<>>, DegradedMeta, <<>>, <<>>, <<>>, <<>>, <<>>, 0)

Except(c) ==
  /\ pc[c] = "except"
  /\ result' = [result EXCEPT ![c] = DegradedPage(page_url[c])]
  /\ pc' = [pc EXCEPT ![c] = "done"]
  /\ UNCHANGED <<parser, inst, html, page_url, local, origin, exc, wvars, gvars, hvars, dvars>>

(***************************************************************************)
(* Inputs.  Text by characters.                                            *)
(***************************************************************************)
T_Ab == <<"A", " ", "b">>
T_Punct == <<"-", ".">>
T_Blank == <<" ">>
T_Word == <<"N", "-", "1", " ", "b", ".">>
T_b == <<"b">>
T_A == <<"A">>
T_Padded == <<" ", "A", ".", "b", " ">>
T_N == <<"N">>
T_NoWordFirst == <<"-", ".", "A", "!", "?", "b", " ", "A">>

Host == "example.com"
BaseUrl == Url("https", Netloc("", Host, ""), FALSE, <<>>, "")
Page2 == Url("", NoNetloc, TRUE, <<"page2">>, "")

PageUrls ==
  {BaseUrl,
   Url("https", Netloc("", Host, "8080"), TRUE, <<"a">>, ""),
   Url("https", Netloc("user", Host, ""), TRUE, <<>>, ""),
   Url("https", Netloc("", "Example.com", ""), TRUE, <<>>, ""),
   Url("foo", Netloc("", Host, ""), TRUE, <<"x">>, ""),
   Url("", NoNetloc, FALSE, <<Host, "page">>, ""),
   EmptyUrl}

HrefUrls ==
  {Page2,
   Url("", NoNetloc, FALSE, <<"page2">>, ""),
   Url("", NoNetloc, FALSE, <<>>, "frag"),
   Url("", Netloc("", "other.com", ""), TRUE, <<"x">>, ""),
   Url("", Netloc("", Host, ""), TRUE, <<"x">>, ""),
   Url("https", NoNetloc, FALSE, <<"rel">>, ""),
   Url("https", Netloc("", Host, ""), TRUE, <<"p">>, ""),
   Url("http", Netloc("", Host, ""), TRUE, <<"p">>, ""),
   Url("https", Netloc("", Host, "8080"), TRUE, <<"p">>, ""),
   Url("https", Netloc("user", Host, ""), TRUE, <<"z">>, ""),
   Url("https", Netloc("", "EXAMPLE.com", ""), FALSE, <<>>, ""),
   Url("https", Netloc("", "www.example.com", ""), FALSE, <<>>, ""),
   Url("https", Netloc("", "external.com", ""), FALSE, <<>>, ""),
   Url("mailto", NoNetloc, FALSE, <<"test@example.com">>, ""),
   Url("javascript", NoNetloc, FALSE, <<"void(0)">>, "")}

HrefValues ==
  {StrHref(u) : u \in HrefUrls \cup {EmptyUrl, InvalidUrl}}
  \cup {NoHref, ListHref(<<>>), ListHref(<<Page2, BaseUrl>>)}

MetaContents ==
  {NoAttr, StrAttr(<<>>), StrAttr(T_Blank), StrAttr(T_Padded), StrAttr(T_A),
   ListAttr(<<>>), ListAttr(<<T_A, T_b>>), ListAttr(<<T_Blank, T_Ab>>)}

MetaElements ==
  {Meta(0, n[1], n[2], c) :
     n \in {<<"description", "">>, <<"keywords", "">>,
            <<"", "og:description">>, <<"description", "og:description">>},
     c \in MetaContents}

(***************************************************************************)
(* Trees of at most n nodes in document order: a new node hangs under the  *)
(* root or under an element on the path to the last node.  The first two   *)
(* nodes are of any kind, the third an element or a text, the later ones   *)
(* texts.                                                                  *)
(***************************************************************************)
TreeTags == {"h1", "strong", "script"}
TreeTexts == {T_Ab, T_Punct, T_Blank}

NodeChoices(parent) ==
  {TagNode(t, parent) : t \in TreeTags}
  \cup {Anchor(parent, StrHref(Page2))}
  \cup {StringNode("text", parent, t) : t \in TreeTexts}
  \cup {StringNode("comment", parent, T_b)}

NodeChoicesAt(k, parent) ==
  IF k <= 2 THEN NodeChoices(parent)
  ELSE IF k = 3
       THEN {TagNode(t, parent) : t \in {"h1", "script"}}
            \cup {StringNode("text", parent, t) : t \in TreeTexts}
  ELSE {StringNode("text", parent, t) : t \in TreeTexts}

OpenElements(nodes) ==
  {0} \cup {i \in 1..Len(nodes) :
              /\ nodes[i].kind = "tag"
              /\ (i = Len(nodes) \/ IsUnder(nodes, Len(nodes), i))}

RECURSIVE TreesOfLen(_)
TreesOfLen(n) ==
  IF n = 0 THEN {<<>>}
  ELSE {Append(t[1], [t[3] EXCEPT !.parent = t[2]]) :
          t \in {x \in TreesOfLen(n - 1) \X (0..(n - 1)) \X NodeChoicesAt(n, 0) :
                   x[2] \in OpenElements(x[1])}}

TreeDocs(n) == UNION {TreesOfLen(k) : k \in 0..n}

(***************************************************************************)
(* A page with every kind of content, visible and not.                     *)
(***************************************************************************)
RichDoc ==
  <<TagNode("title", 0), StringNode("text", 1, T_Ab),
    Meta(0, "description", "", StrAttr(T_Padded)),
    Img(0, StrAttr(T_A)),
    TagNode("h1", 0), Anchor(5, StrHref(Page2)), TagNode("strong", 6),
    StringNode("text", 7, T_Word),
    TagNode("script", 0), StringNode("text", 9, T_b),
    StringNode("comment", 0, T_b),
    TagNode("noscript", 0), Anchor(12, StrHref(Page2)), Img(13, StrAttr(T_b)),
    StringNode("text", 13, T_A),
    StringNode("doctype", 0, T_b)>>

Input(nodes, raises, e, url, features) ==
  [nodes |-> nodes, raises |-> raises, exc |-> e, url |-> url, features |-> features]

Plain(nodes) == Input(nodes, "none", "", BaseUrl, "lxml")

TreeInputs == {Plain(d) : d \in TreeDocs(MaxNodes)}

TextInputs ==
  {Plain(<<TagNode("p", 0), StringNode("text", 1, t)>>) :
     t \in SeqsUpTo(TextAlphabet, MaxLen)}

FaultInputs ==
  {Input(RichDoc, r, e, u, f) :
     r \in (StepNames \ {"return"}) \cup {"none"},
     e \in {"RecursionError", "AttributeError"},
     u \in {BaseUrl, InvalidUrl},
     f \in Backends}

LinkInputs ==
  {Input(<<Anchor(0, h), StringNode("text", 1, T_A)>>, "none", "", u, "lxml") :
     h \in HrefValues, u \in PageUrls}

Mailto == Url("mailto", NoNetloc, FALSE, <<"test@example.com">>, "")

SeveralLinkInputs ==
  {Plain(<<Anchor(0, h[1]), StringNode("text", 1, T_A), Anchor(0, h[2]),
           TagNode("b", 0), Anchor(4, h[3]), StringNode("text", 5, T_b)>>) :
     h \in [1..3 -> {NoHref, StrHref(EmptyUrl), StrHref(Mailto), StrHref(Page2),
                     ListHref(<<>>)}]}

(* A link in the title; a link in a heading in a quotation. *)
NestedLinkInputs ==
  {Plain(<<TagNode(outer, 0), TagNode(inner, 1), Anchor(2, StrHref(Page2)),
           StringNode("text", 3, T_Ab), TagNode("em", 3),
           StringNode("text", 5, T_A)>>) :
     outer \in {"title", "blockquote", "div"}, inner \in {"title", "h2", "span"}}

(* Three texts, the second in an element of the first's paragraph. *)
SentenceTexts == {T_Ab, T_Padded, T_Word, T_Punct, T_Blank, T_NoWordFirst}

SentenceInputs ==
  {Plain(<<TagNode("p", 0), StringNode("text", 1, t[1]), TagNode("b", 1),
           StringNode("text", 3, t[2]), StringNode("text", 1, t[3])>>) :
     t \in [1..3 -> SentenceTexts]}

(* <!DOCTYPE ...> before a paragraph: bs4 keeps the declaration as a
   Doctype string at the top of the tree. *)
DoctypeInputs ==
  {Plain(<<StringNode("doctype", 0, d), TagNode("p", 0), StringNode("text", 2, t)>>) :
     d \in {T_N, T_Ab, T_Blank}, t \in SentenceTexts \cup {T_N}}

MetaInputs ==
  {Plain(<<m>>) : m \in MetaElements}
  \cup {Plain(<<m1, m2>>) : m1 \in MetaElements, m2 \in MetaElements}

Inputs ==
  TreeInputs \cup TextInputs \cup FaultInputs \cup LinkInputs \cup SeveralLinkInputs
  \cup NestedLinkInputs \cup SentenceInputs \cup DoctypeInputs
  \cup MetaInputs

PairInputs ==
  {Input(d, r, "RecursionError", BaseUrl, f) :
     d \in {RichDoc} \cup TreeDocs(1),
     r \in {"none", "tokens"},
     f \in {"lxml", "nosuchparser"}}

(***************************************************************************)
(* Initial states.                                                         *)
(***************************************************************************)
IdleWords == wtext = <<>> /\ wraw = <<>> /\ wwords = <<>> /\ wpc = "idle"
IdlePage == given = <<>> /\ page = NoResult
IdleDatabase ==
  /\ files = <<>>
  /\ db_path = NoFile
  /\ connection = NoConnection
  /\ history = <<>>

Started(inputs) ==
  /\ inst \in [Calls -> Instances]
  /\ html = [c \in Calls |-> [nodes |-> inputs[c].nodes,
                              raises |-> inputs[c].raises,
                              exc |-> inputs[c].exc]]
  /\ page_url = [c \in Calls |-> inputs[c].url]
  /\ local = [c \in Calls |-> Unbound]
  /\ origin = [c \in Calls |-> <<>>]
  /\ exc = [c \in Calls |-> ""]
  /\ result = [c \in Calls |-> NoResult]
  /\ heap = [c \in Calls |-> <<>>]
  /\ refs = [c \in Calls |-> NoRefs]
  /\ touched = [c \in Calls |-> Untouched]

(* No call of parse_html is made. *)
IdleParser ==
  /\ Started([c \in Calls |-> Plain(<<>>)])
  /\ inst = [c \in Calls |-> 1]
  /\ parser = [i \in Instances |-> "lxml"]
  /\ pc = [c \in Calls |-> "idle"]

(* One call, on instance 1; call 2 is never made. *)
Init ==
  /\ \E inp \in Inputs :
       /\ Started([c \in Calls |-> inp])
       /\ parser = [i \in Instances |-> inp.features]
  /\ inst = [c \in Calls |-> 1]
  /\ pc = [c \in Calls |-> IF c = 1 THEN "build" ELSE "idle"]
  /\ IdleWords
  /\ IdlePage
  /\ IdleDatabase

Step(c) ==
  \/ Build(c)
  \/ Filter(c)
  \/ Title(c)
  \/ MetaDescription(c)
  \/ ImageAltTexts(c)
  \/ Links(c)
  \/ Tokens(c)
  \/ PlainText(c)
  \/ Return(c)
  \/ Except(c)

Next == \E c \in Calls : Step(c)

Spec == Init /\ [][Next]_vars

(* Two calls, on the same instance or on two, interleaved step by step. *)
InitPair ==
  /\ \E in1 \in PairInputs, in2 \in PairInputs :
       /\ Started([c \in Calls |-> IF c = 1 THEN in1 ELSE in2])
       /\ parser \in {[i \in Instances |-> in1.features],
                      [i \in Instances |-> IF i = 1 THEN in1.features ELSE in2.features]}
       /\ in1.features # in2.features => inst = [c \in Calls |-> c]
  /\ pc = [c \in Calls |-> "build"]
  /\ IdleWords
  /\ IdlePage
  /\ IdleDatabase

SpecPair == InitPair /\ [][Next]_vars

(***************************************************************************)
(* The client of a page.  After the call returned, the client changes one  *)
(* object a token holds: it adds a category to the token's emphasis set or *)
(* appends a name to its parent_tags list.  What the client then reads     *)
(* through the page is what the objects hold.                              *)
(***************************************************************************)
ClientCategory == "code"
ClientTag == <<"x">>

Mutated(value, field) ==
  IF field = "emphasis" THEN value \cup {ClientCategory} ELSE value \o ClientTag

View(p, r, h) ==
  [p EXCEPT
     !.tokens = [k \in DOMAIN p.tokens |->
                   [p.tokens[k] EXCEPT !.emphasis = h[r.emphasis[k]],
                                       !.parent_tags = h[r.parent_tags[k]]]],
     !.links = [k \in DOMAIN p.links |->
                  [p.links[k] EXCEPT !.emphasis = h[r.links[k]]]]]

Mutate(c) ==
  /\ pc[c] = "done"
  /\ exc[c] = ""
  /\ \E k \in DOMAIN result[c].tokens, field \in {"emphasis", "parent_tags"} :
       LET ref == refs[c][field][k]
       IN  /\ heap' = [heap EXCEPT ![c][ref] = Mutated(@, field)]
           /\ touched' = [touched EXCEPT ![c] = [token |-> k, field |-> field]]
           /\ result' = [result EXCEPT ![c] = View(@, refs[c], heap'[c])]
  /\ pc' = [pc EXCEPT ![c] = "mutated"]
  /\ UNCHANGED <<parser, inst, html, page_url, local, origin, exc, refs, wvars, gvars, dvars>>

NextClient == \E c \in Calls : Step(c) \/ Mutate(c)

SpecClient == Init /\ [][NextClient]_vars

(***************************************************************************)
(* _split_text_into_words called on any short string.                      *)
(***************************************************************************)
InitWords ==
  /\ wtext \in Strings
  /\ wraw = <<>>
  /\ wwords = <<>>
  /\ wpc = "call"
  /\ Started([c \in Calls |-> Plain(<<>>)])
  /\ inst = [c \in Calls |-> 1]
  /\ parser = [i \in Instances |-> "lxml"]
  /\ pc = [c \in Calls |-> "idle"]
  /\ IdlePage
  /\ IdleDatabase

SplitWords ==
  /\ wpc = "call"
  /\ wraw' = Split(wtext)
  /\ wwords' = _split_text_into_words(wtext)
  /\ wpc' = "done"
  /\ UNCHANGED <<wtext, pvars, gvars, hvars, dvars>>

NextWords == SplitWords

SpecWords == InitWords /\ [][NextWords]_vars

(***************************************************************************)
(* ParsedPage(...) called by a client with any word_count and any          *)
(* emphasis_stats.                                                         *)
(***************************************************************************)
MaxTokens == 2

EmphasisChoices == {{}, {"bold"}, {"header", "strong"}}

GivenToken(emphasis, position) ==
  [text |-> T_A, cleaned_text |-> T_A, emphasis |-> emphasis,
   position |-> position, paragraph_position |-> position,
   sentence_position |-> position, is_capitalized |-> TRUE,
   is_sentence_start |-> position = 0, parent_tags |-> <<DOCUMENT>>,
   text_group_id |-> 0]

GivenTokenLists ==
  UNION {{[k \in 1..n |-> GivenToken(e[k], k - 1)] : e \in [1..n -> EmphasisChoices]} :
           n \in 0..MaxTokens}

GivenStats ==
  {<<>>, [e \in EmphasisType |-> 0], [e \in EmphasisType |-> 1],
   [e \in {"bold"} |-> 2]}

InitPage ==
  /\ IdlePage
  /\ IdleWords
  /\ IdleDatabase
  /\ Started([c \in Calls |-> Plain(<<>>)])
  /\ inst = [c \in Calls |-> 1]
  /\ parser = [i \in Instances |-> "lxml"]
  /\ pc = [c \in Calls |-> "idle"]

Construct ==
  /\ page = NoResult
  /\ \E tokens \in GivenTokenLists, word_count \in 0..(MaxTokens + 1),
        emphasis_stats \in GivenStats :
       /\ given' = [tokens |-> tokens, word_count |-> word_count,
                    emphasis_stats |-> emphasis_stats]
       /\ page' = ParsedPage(BaseUrl, <<>>, None, <<>>, tokens, <<>>, <<>>,
                             emphasis_stats, word_count)
  /\ UNCHANGED <<pvars, wvars, hvars, dvars>>

NextPage == Construct

SpecPage == InitPage /\ [][NextPage]_vars

(***************************************************************************)
(* DatabaseManager.  A database file holds the state of its schema ("none" *)
(* before the script ran, "partial" after a script that failed midway,     *)
(* "applied"), whether the project metadata is set, and the rows of the    *)
(* websites table.  A partial schema has the websites table or not: an     *)
(* operation on it finds the table, or fails as with the fault "execute".  *)
(* Every operation is one call on one manager.                             *)
(***************************************************************************)
MaxCalls == 4
MaxFiles == 2

Domains == {"example.com", "example.org"}
BaseUrls == {"", "https://example.com"}

NewDatabase ==
  [schema |-> "none", metadata |-> FALSE, websites |-> <<>>, crawl_sessions |-> 0]
ReadyDatabase ==
  [schema |-> "applied", metadata |-> TRUE, websites |-> <<>>, crawl_sessions |-> 0]

(* What a call without connection raises: lines 188-189, 246-247, 284-285. *)
RaisedWithoutConnection(op) ==
  IF op = "page_exists" THEN "DatabaseError" ELSE "RuntimeError"

Now == Len(history) + 1

Entry(op, domain, base_url, raised, value, rows_before, rows_after) ==
  [op |-> op, domain |-> domain, base_url |-> base_url, raised |-> raised,
   value |-> value, rows_before |-> rows_before, rows_after |-> rows_after]

Log(entry) == history' = Append(history, entry)

(* sqlite3: the rowid a new row of an INTEGER PRIMARY KEY table gets *)
NextRowId(rows) ==
  IF rows = <<>> THEN 1
  ELSE 1 + CHOOSE m \in {rows[k].website_id : k \in DOMAIN rows} :
             \A k \in DOMAIN rows : rows[k].website_id <= m

(* lines 210-213: SELECT website_id FROM websites WHERE domain = ?; fetchone *)
SelectWebsite(rows, domain) ==
  LET found == SelectSeq(rows, LAMBDA row : row.domain = domain)
  IN  IF found = <<>> THEN <<>> ELSE <<found[1].website_id>>

(* line 207: a new cursor, whose lastrowid is not set *)
NewCursor == [lastrowid |-> 0]

(* line 216: website_id = result[0] *)
CursorLastRowId(row, cursor) == cursor.lastrowid
FoundWebsiteId(row, cursor) == row[1]

(* lines 218-224: UPDATE websites SET last_seen = datetime('now') *)
UpdateLastSeen(rows, website_id, now) ==
  [k \in DOMAIN rows |->
     IF rows[k].website_id = website_id THEN [rows[k] EXCEPT !.last_seen = now]
     ELSE rows[k]]

(* lines 229-236: INSERT INTO websites (domain, base_url, first_seen, last_seen) *)
InsertWebsite(rows, domain, base_url, now) ==
  Append(rows, [website_id |-> NextRowId(rows), domain |-> domain,
                base_url |-> base_url, first_seen |-> now, last_seen |-> now])

InitFaults ==
  {"none", "unlink", "connect", "configure", "schema_file", "schema_script",
   "metadata"}

(* lines 47-94: initialize_project(recreate_if_exists), with the step (if
   any) at which the file system or SQLite fails *)
InitializeProject(recreate_if_exists, fault) ==
  LET exists == db_path # NoFile
      entry(raised) ==
        Entry("initialize_project", "", "", raised, 0, 0, 0)
      new == Len(files) + 1
      created(db) == Append(files, db)
  IN  /\ Len(history) < MaxCalls
      /\ IF exists /\ recreate_if_exists /\ fault = "unlink"
         THEN /\ Log(entry("DatabaseError"))
              /\ UNCHANGED <<files, db_path, connection>>
         ELSE IF exists /\ ~recreate_if_exists
         THEN IF fault = "connect"
              THEN /\ Log(entry("DatabaseError"))
                   /\ UNCHANGED <<files, db_path, connection>>
              ELSE /\ connection' = db_path
                   /\ Log(entry(IF fault = "configure" THEN "DatabaseError" ELSE ""))
                   /\ UNCHANGED <<files, db_path>>
         ELSE IF fault = "connect"
         THEN /\ db_path' = NoFile
              /\ Log(entry("DatabaseError"))
              /\ UNCHANGED <<files, connection>>
         ELSE /\ Len(files) < MaxFiles
              /\ db_path' = new
              /\ connection' = new
              /\ IF fault \in {"configure", "schema_file"}
                 THEN /\ files' = created(NewDatabase)
                      /\ Log(entry("DatabaseError"))
                 ELSE IF fault = "schema_script"
                 THEN /\ files' = created([NewDatabase EXCEPT !.schema = "partial"])
                      /\ Log(entry("DatabaseError"))
                 ELSE IF fault = "metadata"
                 THEN /\ files' = created([NewDatabase EXCEPT !.schema = "applied"])
                      /\ Log(entry("DatabaseError"))
                 ELSE /\ files' = created(ReadyDatabase)
                      /\ Log(entry(""))
      /\ UNCHANGED <<pvars, wvars, gvars, hvars>>

(* lines 193-249: get_or_create_website(domain, base_url) *)
GetOrCreateWebsite(domain, base_url, fault) ==
  LET entry(raised, value, rows_after) ==
        Entry("get_or_create_website", domain, base_url, raised, value,
              IF connection = NoConnection THEN 0
              ELSE Len(files[connection].websites),
              rows_after)
  IN  /\ Len(history) < MaxCalls
      /\ IF connection = NoConnection
         THEN /\ Log(entry(RaisedWithoutConnection("get_or_create_website"), 0, 0))
              /\ UNCHANGED files
         ELSE LET db == files[connection]
                  rows == db.websites
                  cursor == NewCursor
                  row == SelectWebsite(rows, domain)
              IN  IF \/ db.schema = "none"
                     \/ fault = "execute"
                  THEN /\ Log(entry("DatabaseError", 0, Len(rows)))
                       /\ UNCHANGED files
                  ELSE IF row # <<>>
                  THEN LET website_id == FoundWebsiteId(row, cursor)
                       IN  /\ files' = [files EXCEPT ![connection].websites =
                                          UpdateLastSeen(rows, website_id, Now)]
                           /\ Log(entry("", website_id, Len(rows)))
                  ELSE LET inserted == InsertWebsite(rows, domain, base_url, Now)
                       IN  /\ files' = [files EXCEPT ![connection].websites = inserted]
                           /\ Log(entry("", inserted[Len(inserted)].website_id,
                                        Len(inserted)))
      /\ UNCHANGED <<db_path, connection, pvars, wvars, gvars, hvars>>

(* lines 287-292: close() *)
Close ==
  /\ Len(history) < MaxCalls
  /\ connection' = NoConnection
  /\ Log(Entry("close", "", "", "", 0, 0, 0))
  /\ UNCHANGED <<files, db_path, pvars, wvars, gvars, hvars>>

(* A manager has been constructed in a directory without database. *)
InitDatabase ==
  /\ IdleDatabase
  /\ IdleParser
  /\ IdleWords
  /\ IdlePage

NextDatabase ==
  \/ \E recreate_if_exists \in BOOLEAN, fault \in InitFaults :
       InitializeProject(recreate_if_exists, fault)
  \/ \E domain \in Domains, base_url \in BaseUrls, fault \in {"none", "execute"} :
       GetOrCreateWebsite(domain, base_url, fault)
  \/ Close

SpecDatabase == InitDatabase /\ [][NextDatabase]_vars

(***************************************************************************)
(* create_crawl_session (lines 153-191) and page_exists (lines 264-285).   *)
(* Both raise RuntimeError in their try block when there is no connection; *)
(* the handler of create_crawl_session raises RuntimeError again (lines    *)
(* 188-189), that of page_exists wraps whatever was raised in              *)
(* DatabaseError (lines 284-285).  No row of pages is ever inserted.       *)
(***************************************************************************)
CreateCrawlSession(fault) ==
  LET entry(raised, value) ==
        Entry("create_crawl_session", "", "", raised, value, 0, 0)
  IN  /\ Len(history) < MaxCalls
      /\ IF connection = NoConnection
         THEN /\ Log(entry(RaisedWithoutConnection("create_crawl_session"), 0))
              /\ UNCHANGED files
         ELSE IF files[connection].schema = "none" \/ fault = "execute"
         THEN /\ Log(entry("DatabaseError", 0))
              /\ UNCHANGED files
         ELSE /\ files' = [files EXCEPT ![connection].crawl_sessions = @ + 1]
              /\ Log(entry("", files[connection].crawl_sessions + 1))
      /\ UNCHANGED <<db_path, connection, pvars, wvars, gvars, hvars>>

PageExists(fault) ==
  LET entry(raised) == Entry("page_exists", "", "", raised, 0, 0, 0)
  IN  /\ Len(history) < MaxCalls
      /\ IF connection = NoConnection
         THEN Log(entry(RaisedWithoutConnection("page_exists")))
         ELSE IF files[connection].schema = "none" \/ fault = "execute"
         THEN Log(entry("DatabaseError"))
         ELSE Log(entry(""))
      /\ UNCHANGED <<files, db_path, connection, pvars, wvars, gvars, hvars>>

NextManager ==
  \/ \E recreate_if_exists \in BOOLEAN, fault \in {"none", "connect"} :
       InitializeProject(recreate_if_exists, fault)
  \/ \E fault \in {"none", "execute"} :
       GetOrCreateWebsite("example.com", "https://example.com", fault)
  \/ \E fault \in {"none", "execute"} : CreateCrawlSession(fault)
  \/ \E fault \in {"none", "execute"} : PageExists(fault)
  \/ Close

SpecManager == InitDatabase /\ [][NextManager]_vars

(***************************************************************************)
(* Properties.                                                             *)
(***************************************************************************)
Done(c) == pc[c] = "done"
Succeeded(c) == pc[c] = "done" /\ exc[c] = ""
Failed(c) == pc[c] = "done" /\ exc[c] # ""
Range(f) == {f[k] : k \in DOMAIN f}

(* C1: in every page parse_html returns, the token at index k (from 0) has
   position k: the positions are 0, 1, ..., word_count-1 in list order. *)
C1_PositionIsIndex ==
  \A c \in Calls :
    Done(c) =>
      /\ \A k \in DOMAIN result[c].tokens : result[c].tokens[k].position = k - 1
      /\ {result[c].tokens[k].position : k \in DOMAIN result[c].tokens}
           = 0..(result[c].word_count - 1)

(* Tokens of three text nodes, the middle one yielding no word. *)
C1_Witness ==
  \E c \in Calls :
    /\ Succeeded(c)
    /\ Len(result[c].tokens) >= 4
    /\ \E k \in DOMAIN origin[c] : k > 1 /\ origin[c][k] > origin[c][k - 1] + 1

(* C2: whatever word_count and emphasis_stats the constructor is given, the
   finished ParsedPage has word_count = len(tokens) and, for each of the nine
   categories, an emphasis_stats entry counting the tokens that carry it. *)
C2_StatsAreDerived ==
  page # NoResult =>
    /\ page.word_count = Len(page.tokens)
    /\ Cardinality(EmphasisType) = 9
    /\ \A e \in EmphasisType :
         /\ e \in DOMAIN page.emphasis_stats
         /\ page.emphasis_stats[e] =
              Cardinality({k \in DOMAIN page.tokens : e \in page.tokens[k].emphasis})

(* The constructor was given a wrong count and wrong statistics. *)
C2_Witness ==
  /\ page # NoResult
  /\ given.word_count # Len(given.tokens)
  /\ given.emphasis_stats = [e \in EmphasisType |-> 1]
  /\ Len(page.tokens) = 2
  /\ page.emphasis_stats["bold"] = 2

(* C3: no exception leaves parse_html: whichever step raises, the call goes
   on to return a ParsedPage whose url is page_url. *)
C3_NeverPropagates ==
  \A c \in Calls :
    /\ pc[c] # "escaped"
    /\ pc[c] \in StepNames \cup {"except", "done", "idle"}
    /\ Done(c) => result[c] # NoResult /\ result[c].url = page_url[c]

(* A step after the first raised, and the call returned. *)
C3_Witness ==
  \E c \in Calls :
    /\ Done(c)
    /\ exc[c] = "RecursionError"
    /\ html[c].raises = "tokens"
    /\ result[c].url = page_url[c]

(* C4: after a failure the page returned is empty in every field, with
   meta_description absent (None). *)
EmptyPage(url) ==
  [url |-> url, title |-> <<>>, meta_description |-> None,
   plain_text |-> <<>>, tokens |-> <<>>, links |-> <<>>,
   emphasis_stats |-> [e \in EmphasisType |-> 0], word_count |-> 0,
   image_alt_texts |-> <<>>]

C4_DegradedIsEmpty ==
  \A c \in Calls : Failed(c) => result[c] = EmptyPage(page_url[c])

(* A failed call whose page is not the empty page only in meta_description. *)
C4_Witness ==
  \E c \in Calls :
    /\ Failed(c)
    /\ html[c].raises = "tokens"
    /\ local[c].title # <<>>
    /\ local[c].links # <<>>
    /\ result[c] = [EmptyPage(page_url[c]) EXCEPT !.meta_description = Some(<<>>)]

(* C5: a token's emphasis is the set of categories of all ancestors of its
   text node, by the table b, strong, i, em, u, code, h1..h6, a, blockquote
   plus title -> Header; it is also the set of categories of the tags in
   its parent_tags. *)
CategoryOfTag ==
  [b |-> "bold", strong |-> "strong", i |-> "italic", em |-> "emphasis",
   u |-> "underline", code |-> "code", h1 |-> "header", h2 |-> "header",
   h3 |-> "header", h4 |-> "header", h5 |-> "header", h6 |-> "header",
   a |-> "link_text", blockquote |-> "blockquote", title |-> "header"]

AncestorTags(nodes, n) ==
  {nodes[j].name : j \in {a \in 1..Len(nodes) : IsUnder(nodes, n, a)}}

CategoriesOf(tags) == {CategoryOfTag[x] : x \in tags \cap DOMAIN CategoryOfTag}

C5_EmphasisFromAllAncestors ==
  \A c \in Calls :
    /\ Len(origin[c]) = Len(local[c].tokens)
    /\ \A k \in DOMAIN local[c].tokens :
         LET t == local[c].tokens[k]
         IN  /\ t.emphasis = CategoriesOf(AncestorTags(html[c].nodes, origin[c][k]))
             /\ t.emphasis = CategoriesOf(Range(t.parent_tags))

(* A token three elements deep carrying Header and Strong, and a token of
   the title carrying Header. *)
C5_Witness ==
  \E c \in Calls :
    /\ Succeeded(c)
    /\ \E k \in DOMAIN result[c].tokens :
         /\ {"header", "strong"} \subseteq result[c].tokens[k].emphasis
         /\ Len(result[c].tokens[k].parent_tags) >= 4
    /\ \E k \in DOMAIN result[c].tokens :
         /\ result[c].tokens[k].parent_tags[1] = "title"
         /\ result[c].tokens[k].emphasis = {"header"}

(* The anchors that yield a link, in document order. *)
LinkAnchors(soup) ==
  SelectSeq(AnchorsWithHref(soup),
            LAMBDA i : CoerceHref(soup.nodes[i].href) # EmptyUrl)

HrefOfLink(c, k) == CoerceHref(html[c].nodes[LinkAnchors(local[c].soup)[k]].href)

(* C6 as stated: is_internal iff the host of the resolved URL equals the
   host of page_url, and a relative href is internal. *)
C6_InternalIffSameHost ==
  \A c \in Calls :
    Succeeded(c) =>
      \A k \in DOMAIN result[c].links :
        LET link == result[c].links[k]
        IN  /\ link.is_internal <=> link.url.netloc.host = page_url[c].netloc.host
            /\ HrefOfLink(c, k).scheme = "" => link.is_internal

(* C6: is_internal iff the netloc (userinfo, host and port) of the resolved
   URL equals the netloc of page_url; an href without scheme and without
   netloc is internal when the scheme of page_url allows relative
   resolution. *)
C6_InternalIffSameNetloc ==
  \A c \in Calls :
    Succeeded(c) =>
      /\ Len(result[c].links) = Len(LinkAnchors(local[c].soup))
      /\ \A k \in DOMAIN result[c].links :
           LET link == result[c].links[k]
               href == HrefOfLink(c, k)
           IN  /\ link.is_internal <=> link.url.netloc = page_url[c].netloc
               /\ link.url.netloc.host # page_url[c].netloc.host => ~link.is_internal
               /\ (/\ href.scheme = ""
                   /\ href.netloc = NoNetloc
                   /\ page_url[c].scheme \in {"", "http", "https"})
                  => link.is_internal

(* A link to the page's own host on another port, classified external; and
   in another run a relative href classified internal. *)
C6_Witness ==
  \E c \in Calls :
    /\ Succeeded(c)
    /\ Len(result[c].links) = 1
    /\ result[c].links[1].url.netloc.host = page_url[c].netloc.host
    /\ result[c].links[1].url.netloc.port = "8080"
    /\ page_url[c].netloc.port = ""
    /\ ~result[c].links[1].is_internal

(* C7: _split_text_into_words returns, for each whitespace-delimited raw
   word in order, the word without its leading and trailing runs of
   characters other than letters, digits and "_", everything in between
   kept, and leaves out the words of which nothing remains; so every word
   returned is non-empty and begins and ends with a word character, and a
   raw word of word characters joined by hyphens is returned whole. *)
WordCharacters == {"A", "N", "b", "1", "_"}
WordPositions(w) == {i \in 1..Len(w) : w[i] \in WordCharacters}
Least(S) == CHOOSE x \in S : \A y \in S : x <= y
Greatest(S) == CHOOSE x \in S : \A y \in S : x >= y
Core(w) ==
  IF WordPositions(w) = {} THEN <<>>
  ELSE SubSeq(w, Least(WordPositions(w)), Greatest(WordPositions(w)))
Cores(raw) ==
  SelectSeq([k \in DOMAIN raw |-> Core(raw[k])], LAMBDA x : x # <<>>)

C7_StripsOnlyTheEdges ==
  wpc = "done" =>
    /\ Concat(wraw) = SelectSeq(wtext, LAMBDA ch : ch # " ")
    /\ \A k \in DOMAIN wraw : wraw[k] # <<>> /\ " " \notin Range(wraw[k])
    /\ wwords = Cores(wraw)
    /\ \A k \in DOMAIN wwords :
         /\ wwords[k] # <<>>
         /\ wwords[k][1] \in WordCharacters
         /\ wwords[k][Len(wwords[k])] \in WordCharacters
    /\ \A k \in DOMAIN wraw :
         (/\ Range(wraw[k]) \subseteq WordCharacters \cup {"-"}
          /\ wraw[k][1] \in WordCharacters
          /\ wraw[k][Len(wraw[k])] \in WordCharacters)
         => wraw[k] \in Range(wwords)

(* A word with punctuation at both edges and a hyphen inside. *)
C7_Witness ==
  /\ wpc = "done"
  /\ wraw = << <<"-", "A", "-", "1">> >>
  /\ wwords = << <<"A", "-", "1">> >>

(* C8: two calls given the same html and the same page_url, on parsers with
   the same backend, return equal pages, however their steps interleave. *)
C8_Deterministic ==
  \A c1 \in Calls, c2 \in Calls :
    (/\ Done(c1)
     /\ Done(c2)
     /\ html[c1] = html[c2]
     /\ page_url[c1] = page_url[c2]
     /\ parser[inst[c1]] = parser[inst[c2]])
    => result[c1] = result[c2]

(* Two successful calls on two instances with the same input. *)
C8_Witness ==
  /\ Succeeded(1)
  /\ Succeeded(2)
  /\ inst[1] # inst[2]
  /\ html[1] = html[2]
  /\ html[1].nodes = RichDoc
  /\ Len(result[1].tokens) >= 4
  /\ result[1] = result[2]

(* The meta elements named "description" left in the tree, in order. *)
DescriptionMetas(soup) ==
  SelectSeq(Alive(soup),
            LAMBDA i : /\ soup.nodes[i].kind = "tag"
                       /\ soup.nodes[i].name = "meta"
                       /\ soup.nodes[i].mname = "description")

Trimmed(content) ==
  IF content.t = "str" THEN Strip(content.s) ELSE Strip(JoinSpace(content.l))

(* C9 as stated: meta_description is absent exactly when no meta element is
   named "description" or that element has no content attribute, and is the
   trimmed content otherwise. *)
C9_AbsentIffNoContentAttribute ==
  \A c \in Calls :
    Succeeded(c) =>
      LET found == DescriptionMetas(local[c].soup)
          md == result[c].meta_description
      IN  /\ md.isNone <=> (found = <<>> \/ html[c].nodes[found[1]].content.t = "none")
          /\ ~md.isNone => md.v = Trimmed(html[c].nodes[found[1]].content)

(* C9: meta_description comes from the first meta element named
   "description" only; it is absent exactly when there is none or its
   content attribute is missing or empty (an empty string or an empty
   list), and otherwise it is the content trimmed, the items of a list
   joined with single spaces first. *)
C9_AbsentIffNoOrEmptyContent ==
  \A c \in Calls :
    Succeeded(c) =>
      LET found == DescriptionMetas(local[c].soup)
          md == result[c].meta_description
          content == html[c].nodes[found[1]].content
      IN  /\ md.isNone <=>
               \/ found = <<>>
               \/ content.t = "none"
               \/ content.t = "str" /\ content.s = <<>>
               \/ content.t = "list" /\ content.l = <<>>
          /\ ~md.isNone => md.v = Trimmed(content)
          /\ (\A i \in DOMAIN html[c].nodes : html[c].nodes[i].mname # "description")
             => md.isNone

(* A list-valued content joined and trimmed; the og:description beside it
   ignored. *)
C9_Witness ==
  \E c \in Calls :
    /\ Succeeded(c)
    /\ Len(html[c].nodes) = 2
    /\ html[c].nodes[1].property = "og:description"
    /\ html[c].nodes[1].mname = ""
    /\ html[c].nodes[1].content = StrAttr(T_A)
    /\ html[c].nodes[2].content = ListAttr(<<T_Blank, T_Ab>>)
    /\ result[c].meta_description = Some(T_Ab)

(* C10: the filter runs before every extraction step, and nothing in the
   page comes from inside a script, style or noscript element or from a
   comment. *)
NonContentTags == {"script", "style", "noscript"}

Hidden(nodes) ==
  {i \in 1..Len(nodes) :
     \/ nodes[i].kind = "comment"
     \/ nodes[i].kind = "tag" /\ nodes[i].name \in NonContentTags
     \/ \E j \in 1..Len(nodes) :
          /\ IsUnder(nodes, i, j)
          /\ nodes[j].kind = "tag"
          /\ nodes[j].name \in NonContentTags}

VisibleTree(nodes) == [nodes |-> nodes, gone |-> Hidden(nodes)]

C10_FilterBeforeExtraction ==
  \A c \in Calls :
    /\ pc[c] \in {"build", "filter"} => local[c] = [Unbound EXCEPT !.soup = local[c].soup]
    /\ pc[c] \in {"title", "meta", "images", "links", "tokens", "plain", "return"}
         => local[c].soup = VisibleTree(html[c].nodes)
    /\ \A k \in DOMAIN local[c].tokens :
         /\ origin[c][k] \notin Hidden(html[c].nodes)
         /\ Range(local[c].tokens[k].parent_tags) \cap NonContentTags = {}
    /\ Succeeded(c) =>
         /\ result[c].tokens = local[c].tokens
         /\ result[c].links = _extract_links(VisibleTree(html[c].nodes), page_url[c])
         /\ result[c].image_alt_texts =
              _extract_image_alt_texts(VisibleTree(html[c].nodes))
         /\ result[c].plain_text = _extract_plain_text(VisibleTree(html[c].nodes))

(* A page with a script, a comment and a noscript holding a link, an image
   and text: one link, one alt text and the visible text only. *)
C10_Witness ==
  \E c \in Calls :
    /\ Succeeded(c)
    /\ html[c].nodes = RichDoc
    /\ Len(result[c].links) = 1
    /\ result[c].image_alt_texts = <<T_A>>
    /\ result[c].plain_text = T_Ab \o <<" ">> \o T_Word
    /\ Hidden(html[c].nodes) = {9, 10, 11, 12, 13, 14, 15}

(* C11: no two tokens of a page hold the same emphasis set or the same
   parent_tags list, and no token's set is a link's set; after the client
   changes one token's emphasis or parent_tags, every other token and every
   link of the page reads as when the page was returned. *)
ObjectsOf(r) ==
  [k \in 1..(2 * Len(r.emphasis) + Len(r.links)) |->
     IF k <= Len(r.emphasis) THEN r.emphasis[k]
     ELSE IF k <= 2 * Len(r.emphasis) THEN r.parent_tags[k - Len(r.emphasis)]
     ELSE r.links[k - 2 * Len(r.emphasis)]]

C11_TokensOwnTheirObjects ==
  \A c \in Calls :
    /\ pc[c] \in {"done", "mutated"} /\ exc[c] = "" =>
         /\ Len(refs[c].emphasis) = Len(result[c].tokens)
         /\ Len(refs[c].parent_tags) = Len(result[c].tokens)
         /\ Len(refs[c].links) = Len(result[c].links)
         /\ \A i, j \in DOMAIN ObjectsOf(refs[c]) :
              i # j => ObjectsOf(refs[c])[i] # ObjectsOf(refs[c])[j]
         /\ result[c] = View(result[c], refs[c], heap[c])
    /\ pc[c] = "mutated" =>
         /\ result[c].links = local[c].links
         /\ \A k \in DOMAIN result[c].tokens :
              IF k = touched[c].token
              THEN result[c].tokens[k] =
                     [local[c].tokens[k] EXCEPT
                        ![touched[c].field] = Mutated(@, touched[c].field)]
              ELSE result[c].tokens[k] = local[c].tokens[k]

(* The client added a category to the set of one of two tokens cut from the
   same text node, inside a link; the other token and the link read as
   before. *)
C11_Witness ==
  \E c \in Calls :
    /\ pc[c] = "mutated"
    /\ touched[c].field = "emphasis"
    /\ \E j \in DOMAIN result[c].tokens :
         /\ j # touched[c].token
         /\ origin[c][j] = origin[c][touched[c].token]
         /\ ClientCategory \in result[c].tokens[touched[c].token].emphasis
         /\ ClientCategory \notin result[c].tokens[j].emphasis
         /\ "link_text" \in result[c].tokens[j].emphasis
    /\ result[c].links # <<>>
    /\ \A k \in DOMAIN result[c].links :
         ClientCategory \notin result[c].links[k].emphasis

(* C12: links holds one LinkInfo for each anchor of the filtered tree whose
   href is present and coerces to a non-empty string, in document order,
   and nothing else; the link of an anchor is its href resolved against
   page_url whatever the scheme, so a mailto: or javascript: href is kept
   as it is and classified by the same netloc comparison. *)
AnchorsWithUsableHref(nodes) ==
  SelectSeq(Indices(nodes),
            LAMBDA i : /\ nodes[i].kind = "tag"
                       /\ nodes[i].name = "a"
                       /\ i \notin Hidden(nodes)
                       /\ nodes[i].href.t # "none"
                       /\ CoerceHref(nodes[i].href) # EmptyUrl)

C12_OneLinkPerUsableAnchor ==
  \A c \in Calls :
    Succeeded(c) =>
      LET anchors == AnchorsWithUsableHref(html[c].nodes)
      IN  /\ Len(result[c].links) = Len(anchors)
          /\ \A k \in DOMAIN anchors :
               LET href == CoerceHref(html[c].nodes[anchors[k]].href)
                   link == result[c].links[k]
               IN  /\ link.url = urljoin(page_url[c], href)
                   /\ link.text = Strip(GetText(VisibleTree(html[c].nodes), anchors[k]))
                   /\ href.scheme \in {"mailto", "javascript"} =>
                        /\ link.url = href
                        /\ link.is_internal <=> page_url[c].netloc = NoNetloc

(* Three anchors with href "", a mailto: href and /page2: two links, in
   that order. *)
C12_Witness ==
  \E c \in Calls :
    /\ Succeeded(c)
    /\ Len(html[c].nodes) = 6
    /\ html[c].nodes[1].href = StrHref(EmptyUrl)
    /\ html[c].nodes[3].href = StrHref(Mailto)
    /\ html[c].nodes[5].href = StrHref(Page2)
    /\ Len(result[c].links) = 2
    /\ result[c].links[1].url = Mailto
    /\ ~result[c].links[1].is_internal
    /\ result[c].links[2].text = T_b
    /\ result[c].links[2].emphasis = {"bold", "link_text"}

(* C13: parse_html never changes the parser instance, and however the
   steps of two calls interleave, on one instance or on two, each call
   returns the page it returns when it runs alone on its html, its page_url
   and its instance's backend. *)
AlonePage(html_content, url, features) ==
  LET soup == VisibleTree(html_content.nodes)
  IN  IF \/ ~HasTreeBuilder(features)
         \/ html_content.raises # "none"
         \/ LinksRaise(soup, url)
      THEN DegradedPage(url)
      ELSE ParsedPage(url, _extract_title(soup), _extract_meta_description(soup),
                      _extract_plain_text(soup), _extract_text_tokens(soup),
                      _extract_links(soup, url), _extract_image_alt_texts(soup),
                      <<>>, 0)

C13_CallsShareNothing ==
  /\ [](\A c \in Calls :
          Done(c) => result[c] = AlonePage(html[c], page_url[c], parser[inst[c]]))
  /\ [][parser' = parser /\ inst' = inst]_vars

(* Two calls on one instance with different pages: call 1 has returned its
   page while call 2 is between two of its steps. *)
C13_Witness ==
  /\ inst[1] = inst[2]
  /\ html[1].nodes = RichDoc
  /\ html[2].nodes # RichDoc
  /\ html[2].nodes # <<>>
  /\ Succeeded(1)
  /\ pc[2] = "links"
  /\ Len(result[1].tokens) = 5
  /\ result[1].title = T_Ab

(* C14: among the get_or_create_website calls that returned with no
   initialize_project call between them, two calls returned the same
   website_id if and only if they were given the same domain, whatever
   base_url they were given, and the later call of two with the same domain
   added no row to websites. *)
Returned(k, op) == history[k].op = op /\ history[k].raised = ""

SameInitialisation(i, j) ==
  \A k \in i..j : history[k].op # "initialize_project"

C14_SameIdIffSameDomain ==
  \A i, j \in DOMAIN history :
    (/\ i < j
     /\ Returned(i, "get_or_create_website")
     /\ Returned(j, "get_or_create_website")
     /\ SameInitialisation(i, j))
    => /\ history[i].value = history[j].value <=> history[i].domain = history[j].domain
       /\ history[i].domain = history[j].domain =>
            history[j].rows_after = history[j].rows_before

(* Three calls on an initialised manager: a domain, another domain, and the
   first domain again with another base_url. *)
C14_Witness ==
  /\ Len(history) = 4
  /\ Returned(1, "initialize_project")
  /\ \A k \in 2..4 : Returned(k, "get_or_create_website")
  /\ history[2].domain = "example.com" /\ history[2].base_url = "https://example.com"
  /\ history[3].domain = "example.org"
  /\ history[4].domain = "example.com" /\ history[4].base_url = ""
  /\ history[2].value = 1
  /\ history[3].value = 2
  /\ history[4].value = 1
  /\ history[4].rows_after = 2
  /\ files[connection].websites[1].base_url = "https://example.com"
  /\ files[connection].websites[1].last_seen = 4

(* C15: the emphasis of a link equals the emphasis of every token cut from
   a text node that is a direct child of the link's anchor, whatever the
   ancestors of the anchor are. *)
C15_AnchorAsItsTextChild ==
  \A c \in Calls :
    Succeeded(c) =>
      \A k \in DOMAIN result[c].links, j \in DOMAIN result[c].tokens :
        html[c].nodes[origin[c][j]].parent = LinkAnchors(local[c].soup)[k]
        => result[c].links[k].emphasis = result[c].tokens[j].emphasis

(* An anchor under a title element: its text carries Header, the link does
   not. *)
C15_Witness ==
  \E c \in Calls :
    /\ Succeeded(c)
    /\ Len(html[c].nodes) = 6
    /\ html[c].nodes[1].name = "title"
    /\ html[c].nodes[2].name = "span"
    /\ Len(result[c].links) = 1
    /\ result[c].links[1].emphasis = {"link_text"}
    /\ result[c].tokens[1].emphasis = {"link_text", "header"}
    /\ result[c].tokens[1].parent_tags = <<"a", "span", "title", DOCUMENT>>

(* C16: cleaning a cleaned word changes nothing, for every whitespace-
   delimited word of every text of the page; and every token has
   cleaned_text = text, a non-empty word, with is_capitalized true exactly
   when its first character is an uppercase letter. *)
UppercaseLetters == {"A", "N"}

RawWords(nodes) ==
  UNION {Range(Split(nodes[i].text)) : i \in {n \in DOMAIN nodes : nodes[n].kind = "text"}}

C16_CleaningIsIdempotent ==
  \A c \in Calls :
    /\ \A w \in RawWords(html[c].nodes) :
         _clean_word(_clean_word(w)) = _clean_word(w)
    /\ Succeeded(c) =>
         \A k \in DOMAIN result[c].tokens :
           LET t == result[c].tokens[k]
           IN  /\ t.text # <<>>
               /\ t.cleaned_text = t.text
               /\ t.cleaned_text = Core(t.text)
               /\ t.is_capitalized <=> t.cleaned_text[1] \in UppercaseLetters

(* The raw word "-A-b" gave the token "A-b", capitalized. *)
C16_Witness ==
  \E c \in Calls :
    /\ Succeeded(c)
    /\ <<"-", "A", "-", "b">> \in RawWords(html[c].nodes)
    /\ \E k \in DOMAIN result[c].tokens :
         /\ result[c].tokens[k].text = <<"A", "-", "b">>
         /\ result[c].tokens[k].cleaned_text = <<"A", "-", "b">>
         /\ result[c].tokens[k].is_capitalized

(* The words of a text node by sentence, and the sentence and the word
   (from 1) at which the r-th word of the node stands. *)
WordsBySentence(text) ==
  LET sentences == _split_into_sentences(Strip(text))
  IN  [i \in DOMAIN sentences |-> _split_text_into_words(sentences[i])]

RECURSIVE Place(_, _, _)
Place(lists, i, r) ==
  IF r <= Len(lists[i]) THEN <<i, r>> ELSE Place(lists, i + 1, r - Len(lists[i]))

FirstTokenOf(c, n) == Least({j \in DOMAIN origin[c] : origin[c][j] = n})

PlaceOfToken(c, k) ==
  Place(WordsBySentence(html[c].nodes[origin[c][k]].text), 1,
        k - FirstTokenOf(c, origin[c][k]) + 1)

EndsSentence(text) ==
  LET t == Strip(text) IN t # <<>> /\ t[Len(t)] \in {".", "!", "?"}

NoTextBetween(nodes, m, n) ==
  \A i \in (m + 1)..(n - 1) : nodes[i].kind # "text" \/ Strip(nodes[i].text) = <<>>

(* C17 as stated: a token is flagged exactly when it is word 0 of sentence 0
   of its own text node, and a word whose sentence began in the previous
   text node is not flagged. *)
C17_NotFlaggedWhenSentenceBeganBefore ==
  \A c \in Calls :
    Succeeded(c) =>
      \A k \in DOMAIN result[c].tokens :
        /\ result[c].tokens[k].is_sentence_start <=> PlaceOfToken(c, k) = <<1, 1>>
        /\ (/\ k > 1
            /\ origin[c][k - 1] # origin[c][k]
            /\ NoTextBetween(html[c].nodes, origin[c][k - 1], origin[c][k])
            /\ ~EndsSentence(html[c].nodes[origin[c][k - 1]].text))
           => ~result[c].tokens[k].is_sentence_start

(* C17: a token is flagged exactly when it is word 0 of sentence 0 of its
   own text node: the first word of a later sentence of the node is not
   flagged, no token of a node whose first sentence has no word is flagged,
   and the first word of a node's first sentence is flagged whether or not
   the text before the node ended a sentence. *)
C17_FirstWordOfFirstSentenceOfNode ==
  \A c \in Calls :
    Succeeded(c) =>
      \A k \in DOMAIN result[c].tokens :
        LET t == result[c].tokens[k]
            place == PlaceOfToken(c, k)
            words == WordsBySentence(html[c].nodes[origin[c][k]].text)
        IN  /\ t.is_sentence_start <=> place = <<1, 1>>
            /\ t.text = words[place[1]][place[2]]
            /\ place[1] > 1 => ~t.is_sentence_start
            /\ words[1] = <<>> => ~t.is_sentence_start
            /\ (k = FirstTokenOf(c, origin[c][k]) /\ words[1] # <<>>)
               => t.is_sentence_start

(* "A b" in one node, then " A.b " in the next: the second A is flagged
   though no sentence ended before it, the b after it is not. *)
C17_Witness ==
  \E c \in Calls :
    /\ Succeeded(c)
    /\ Len(html[c].nodes) = 5
    /\ html[c].nodes[2].text = T_Ab
    /\ html[c].nodes[4].text = T_Padded
    /\ html[c].nodes[5].text = T_NoWordFirst
    /\ Len(result[c].tokens) = 7
    /\ result[c].tokens[3].is_sentence_start
    /\ ~result[c].tokens[4].is_sentence_start
    /\ \A k \in 5..7 : ~result[c].tokens[k].is_sentence_start

(* The text nodes the tokenizer processes before node n: the strings of
   the filtered tree, in document order, that are not blank. *)
ProcessedBefore(nodes, n) ==
  {i \in 1..(n - 1) : /\ nodes[i].kind # "tag"
                      /\ i \notin Hidden(nodes)
                      /\ Strip(nodes[i].text) # <<>>}

(* C18: two tokens of a page have the same text_group_id exactly when they
   were cut from the same text node, the id never decreases with position,
   and a token's id is the number of text nodes processed before its own,
   those that yielded no sentence or no word included. *)
C18_GroupIdCountsProcessedNodes ==
  \A c \in Calls :
    Succeeded(c) =>
      \A k \in DOMAIN result[c].tokens :
        /\ result[c].tokens[k].text_group_id =
             Cardinality(ProcessedBefore(html[c].nodes, origin[c][k]))
        /\ \A j \in 1..(k - 1) :
             /\ result[c].tokens[j].text_group_id <= result[c].tokens[k].text_group_id
             /\ (result[c].tokens[j].text_group_id = result[c].tokens[k].text_group_id)
                  <=> (origin[c][j] = origin[c][k])

(* "A b", then "-." which has a sentence and no word, then "A b": the ids
   are 0, 0, 2, 2. *)
C18_Witness ==
  \E c \in Calls :
    /\ Succeeded(c)
    /\ Len(html[c].nodes) = 5
    /\ html[c].nodes[2].text = T_Ab
    /\ html[c].nodes[4].text = T_Punct
    /\ html[c].nodes[5].text = T_Ab
    /\ Len(result[c].tokens) = 4
    /\ result[c].tokens[2].text_group_id = 0
    /\ result[c].tokens[3].text_group_id = 2

(* The sentences of a text, said without the scan: the maximal stretches
   free of '.', '!' and '?', from left to right, each trimmed, the blank
   ones left out. *)
Stretches(t) ==
  {s \in (1..Len(t)) \X (1..Len(t)) :
     /\ s[1] <= s[2]
     /\ \A x \in s[1]..s[2] : t[x] \notin {".", "!", "?"}
     /\ s[1] = 1 \/ t[s[1] - 1] \in {".", "!", "?"}
     /\ s[2] = Len(t) \/ t[s[2] + 1] \in {".", "!", "?"}}

StretchesInOrder(t) ==
  [r \in 1..Cardinality(Stretches(t)) |->
     CHOOSE s \in Stretches(t) :
       Cardinality({u \in Stretches(t) : u[1] < s[1]}) = r - 1]

SentencesOf(t) ==
  LET trimmed == [r \in DOMAIN StretchesInOrder(t) |->
                    Strip(SubSeq(t, StretchesInOrder(t)[r][1], StretchesInOrder(t)[r][2]))]
  IN  SelectSeq(trimmed, LAMBDA x : x # <<>>)

RECURSIVE SumLen(_)
SumLen(lists) == IF lists = <<>> THEN 0 ELSE Len(Head(lists)) + SumLen(Tail(lists))

(* C19: a node's sentences are the trimmed non-blank stretches between
   maximal runs of '.', '!' and '?'; the node's tokens are the words of
   those sentences in order, sentence_position is the word's index in its
   sentence, from 0 and without gap, and paragraph_position equals it. *)
C19_SentencePositionIsIndexInSentence ==
  \A c \in Calls :
    Succeeded(c) =>
      \A n \in DOMAIN html[c].nodes :
        (html[c].nodes[n].kind # "tag" /\ n \notin Hidden(html[c].nodes)) =>
          LET sentences == SentencesOf(Strip(html[c].nodes[n].text))
              words == [i \in DOMAIN sentences |-> _split_text_into_words(sentences[i])]
              mine == {k \in DOMAIN result[c].tokens : origin[c][k] = n}
          IN  /\ Cardinality(mine) = SumLen(words)
              /\ \A k \in mine :
                   LET t == result[c].tokens[k]
                       place == Place(words, 1, k - Least(mine) + 1)
                   IN  /\ t.text = words[place[1]][place[2]]
                       /\ t.sentence_position = place[2] - 1
                       /\ t.paragraph_position = t.sentence_position

(* "-.A!?b A" gives the sentences "-", "A" and "b A", and "N-1 b." one
   sentence: the positions are 0, 0, 1 and 0, 1. *)
C19_Witness ==
  \E c \in Calls :
    /\ Succeeded(c)
    /\ Len(html[c].nodes) = 5
    /\ html[c].nodes[2].text = T_NoWordFirst
    /\ html[c].nodes[4].text = T_Word
    /\ html[c].nodes[5].text = T_Blank
    /\ Len(result[c].tokens) = 5
    /\ [k \in 1..5 |-> result[c].tokens[k].sentence_position] = <<0, 0, 1, 0, 1>>
    /\ [k \in 1..5 |-> result[c].tokens[k].paragraph_position] = <<0, 0, 1, 0, 1>>

InsideAnchor(nodes, n) ==
  \E e \in DOMAIN nodes :
    nodes[e].kind = "tag" /\ nodes[e].name = "a" /\ IsUnder(nodes, n, e)

(* C20: every LinkInfo of every page has LinkText in its emphasis set, and
   so has every token cut from a text node that lies inside an anchor
   element, at any depth. *)
C20_LinkTextOnLinksAndAnchorTokens ==
  \A c \in Calls :
    Succeeded(c) =>
      /\ \A k \in DOMAIN result[c].links :
           "link_text" \in result[c].links[k].emphasis
      /\ \A k \in DOMAIN result[c].tokens :
           InsideAnchor(html[c].nodes, origin[c][k])
             => "link_text" \in result[c].tokens[k].emphasis

(* <div><h2><a href>A b<em>A</em></a></h2></div>: the link and the three
   tokens, the one under em included, carry LinkText. *)
C20_Witness ==
  \E c \in Calls :
    /\ Succeeded(c)
    /\ Len(html[c].nodes) = 6
    /\ html[c].nodes[1].name = "div"
    /\ html[c].nodes[2].name = "h2"
    /\ html[c].nodes[3].name = "a"
    /\ Len(result[c].links) = 1
    /\ result[c].links[1].emphasis = {"link_text", "header"}
    /\ Len(result[c].tokens) = 3
    /\ origin[c][3] = 6
    /\ result[c].tokens[3].emphasis = {"emphasis", "link_text", "header"}

(* The tokens of a page that share a text_group_id, and those of them that
   are flagged. *)
GroupOf(tokens, g) == {k \in DOMAIN tokens : tokens[k].text_group_id = g}
FlaggedOf(tokens, g) == {k \in GroupOf(tokens, g) : tokens[k].is_sentence_start}

(* C21 as stated: every text group that has a token has exactly one flagged
   token, the one of lowest position. *)
C21_ExactlyOneStartPerGroup ==
  \A c \in Calls :
    Succeeded(c) =>
      \A k \in DOMAIN result[c].tokens :
        FlaggedOf(result[c].tokens, result[c].tokens[k].text_group_id) =
          {Least(GroupOf(result[c].tokens, result[c].tokens[k].text_group_id))}

(* C21: every text group has at most one flagged token, which is then the
   one of lowest position; it has one exactly when the first sentence of
   its text node yields a word. *)
C21_AtMostOneStartPerGroup ==
  \A c \in Calls :
    Succeeded(c) =>
      \A k \in DOMAIN result[c].tokens :
        LET g == result[c].tokens[k].text_group_id
            flagged == FlaggedOf(result[c].tokens, g)
            words == WordsBySentence(html[c].nodes[origin[c][k]].text)
        IN  /\ flagged \subseteq {Least(GroupOf(result[c].tokens, g))}
            /\ flagged # {} <=> words[1] # <<>>
            /\ \A j \in flagged :
                 \A i \in GroupOf(result[c].tokens, g) :
                   result[c].tokens[j].position <= result[c].tokens[i].position

(* "-.A!?b A" alone in its group: three tokens, none flagged; "A b" after
   it: the A flagged. *)
C21_Witness ==
  \E c \in Calls :
    /\ Succeeded(c)
    /\ Len(html[c].nodes) = 5
    /\ html[c].nodes[2].text = T_NoWordFirst
    /\ html[c].nodes[4].text = T_Ab
    /\ html[c].nodes[5].text = T_Punct
    /\ Len(result[c].tokens) = 5
    /\ FlaggedOf(result[c].tokens, 0) = {}
    /\ GroupOf(result[c].tokens, 0) = {1, 2, 3}
    /\ FlaggedOf(result[c].tokens, 1) = {4}

OccursIn(word, text) ==
  \E i \in 1..(Len(text) - Len(word) + 1) : SubSeq(text, i, i + Len(word) - 1) = word

(* C22: on every page of a successful parse, the text of every token
   occurs in plain_text: no token is cut from a string, such as a document
   type declaration, that the flattening leaves out. *)
C22_TokensOccurInPlainText ==
  \A c \in Calls :
    Succeeded(c) =>
      \A k \in DOMAIN result[c].tokens :
        /\ OccursIn(result[c].tokens[k].text, result[c].plain_text)
        /\ html[c].nodes[origin[c][k]].kind = "text"

(* <!DOCTYPE N><p>A b</p>: the tokens are N, A, b and the plain text
   is "A b". *)
C22_Witness ==
  \E c \in Calls :
    /\ Succeeded(c)
    /\ Len(html[c].nodes) = 3
    /\ html[c].nodes[1].kind = "doctype"
    /\ result[c].plain_text = T_Ab
    /\ Len(result[c].tokens) = 3
    /\ result[c].tokens[1].text = T_N
    /\ origin[c][1] = 1
    /\ ~OccursIn(result[c].tokens[1].text, result[c].plain_text)

(* C23: create_crawl_session, get_or_create_website and page_exists,
   called while the manager holds no connection, each raise DatabaseError
   and leave the manager's state unchanged. *)
C23_NoConnectionRaisesDatabaseError ==
  [][(/\ connection = NoConnection
      /\ Len(history') = Len(history) + 1
      /\ history'[Len(history')].op \in
           {"create_crawl_session", "get_or_create_website", "page_exists"})
     => /\ history'[Len(history')].raised = "DatabaseError"
        /\ UNCHANGED <<files, db_path, connection>>]_vars

(* The three operations called on a manager that was never initialised:
   two RuntimeErrors and one DatabaseError. *)
C23_Witness ==
  /\ files = <<>>
  /\ connection = NoConnection
  /\ Len(history) = 3
  /\ [k \in 1..3 |-> history[k].op] =
       <<"create_crawl_session", "get_or_create_website", "page_exists">>
  /\ [k \in 1..3 |-> history[k].raised] =
       <<"RuntimeError", "RuntimeError", "DatabaseError">>

(* C24: when initialize_project returns, the connected database has the
   schema applied and the metadata set; when it raises DatabaseError the
   manager holds no connection, so that a later call cannot succeed by
   connecting to what the failed attempt left behind. *)
C24_InitialisedOrNoConnection ==
  [][(/\ Len(history') = Len(history) + 1
      /\ history'[Len(history')].op = "initialize_project")
     => IF history'[Len(history')].raised = ""
        THEN /\ connection' # NoConnection
             /\ files'[connection'].schema = "applied"
             /\ files'[connection'].metadata
        ELSE connection' = NoConnection]_vars

(* A first call that failed after connecting, then a second call that
   returned a connection to the file the first left without schema. *)
C24_Witness ==
  /\ Len(history) = 2
  /\ history[1].op = "initialize_project" /\ history[1].raised = "DatabaseError"
  /\ history[2].op = "initialize_project" /\ history[2].raised = ""
  /\ Len(files) = 1
  /\ connection = 1
  /\ db_path = 1
  /\ files[1] = NewDatabase

=============================================================================
